---- MODULE Spec2Model ----
(***************************************************************************)
(* Model of the click-to-edit site-wide initializer                       *)
(* (assets/javascripts/initializers/disable-discourse-composer-scroll-    *)
(* sync.js, the ClickToEditHandler class of lines 112-1165): the text      *)
(* helpers, both resolution directions, and the handler's life cycle with *)
(* the Ember run loop's debounce timers and the browser's setTimeout.      *)
(*                                                                         *)
(* Text is a sequence of one-character strings.  The inputs of the model   *)
(* are written over letters, "_", space, "[", "]", "/", "=", the double    *)
(* quote, "|", "." and ":"; a buffer joins its lines with "\n".  No input  *)
(* holds "*", "~", "`", "(", "#", ">", "<", "^", "!", "+", "-" or a digit  *)
(* outside "x.mp4", so the patterns of PATTERNS that need one of them      *)
(* (mdBold, mdItalic, mdStrike, mdCode, mdLink, mdImage, mdHeading,        *)
(* mdQuote, the list markers, mdFootnote, htmlTag, discourseUpload) match  *)
(* nowhere and their replace / test steps leave the text as it is.         *)
(***************************************************************************)
EXTENDS Integers, Sequences, FiniteSets, TLC

\* ------------------------------------------------------------------------
\* Characters
\* ------------------------------------------------------------------------

UpperSeq ==
  <<"A","B","C","D","E","F","G","H","I","J","K","L","M",
    "N","O","P","Q","R","S","T","U","V","W","X","Y","Z">>

LowerSeq ==
  <<"a","b","c","d","e","f","g","h","i","j","k","l","m",
    "n","o","p","q","r","s","t","u","v","w","x","y","z">>

DigitChars == {"0","1","2","3","4","5","6","7","8","9"}

Range(f) == {f[i] : i \in DOMAIN f}

\* String.prototype.toLowerCase on one character.
ToLowerChar(c) ==
  IF c \in Range(UpperSeq)
    THEN LowerSeq[CHOOSE i \in DOMAIN UpperSeq : UpperSeq[i] = c]
    ELSE c

\* \w of a JavaScript regular expression: [A-Za-z0-9_].
IsWordChar(c) == c \in Range(UpperSeq) \cup Range(LowerSeq) \cup DigitChars \cup {"_"}

\* \s of a JavaScript regular expression (the white space the inputs can hold).
IsSpaceChar(c) == c \in {" ", "\n", "\t"}

\* ------------------------------------------------------------------------
\* Generic string helpers (String.prototype.*)
\* ------------------------------------------------------------------------

MapSeq(s, Op(_)) == [i \in 1..Len(s) |-> Op(s[i])]

ToLowerCase(s) == MapSeq(s, ToLowerChar)

\* s.substring(i-1): the text from the 1-based position i on.
From(s, i) == SubSeq(s, i, Len(s))

\* s starts with t at the 1-based position i.
MatchAt(s, i, t) ==
  /\ i >= 1
  /\ i + Len(t) - 1 <= Len(s)
  /\ SubSeq(s, i, i + Len(t) - 1) = t

\* s.includes(t)
Includes(s, t) == \E i \in 1..(Len(s) - Len(t) + 1) : MatchAt(s, i, t)

\* /literal/i.test(s): a case-insensitive search for a literal (lit in lower case).
HasCI(s, lit) == Includes(ToLowerCase(s), lit)

RECURSIVE TrimStart(_)
TrimStart(s) ==
  IF s # <<>> /\ IsSpaceChar(Head(s)) THEN TrimStart(Tail(s)) ELSE s

RECURSIVE TrimEnd(_)
TrimEnd(s) ==
  IF s # <<>> /\ IsSpaceChar(s[Len(s)]) THEN TrimEnd(SubSeq(s, 1, Len(s) - 1)) ELSE s

\* s.trim()
Trim(s) == TrimEnd(TrimStart(s))

\* s.split(sep) for a one-character separator: the pieces, empty ones included.
RECURSIVE SplitOn(_, _)
SplitOn(s, sep) ==
  IF \E i \in 1..Len(s) : s[i] = sep
    THEN LET i == CHOOSE k \in 1..Len(s) :
                    s[k] = sep /\ \A j \in 1..(k - 1) : s[j] # sep
         IN  <<SubSeq(s, 1, i - 1)>> \o SplitOn(From(s, i + 1), sep)
    ELSE <<s>>

\* value.split("\n")
SplitLines(value) == SplitOn(value, "\n")

\* ------------------------------------------------------------------------
\* TEXT PROCESSING (stripAllSyntax, normalizeText, fuzzyMatch, getMatchScore)
\* ------------------------------------------------------------------------

\* The position of the first "]" at or after position i, 0 when there is none.
FirstClose(s, i) ==
  IF \E k \in i..Len(s) : s[k] = "]"
    THEN CHOOSE k \in i..Len(s) : s[k] = "]" /\ \A j \in i..(k - 1) : s[j] # "]"
    ELSE 0

\* The position after the longest run of [\w-] that starts at position i.
RECURSIVE TagNameEnd(_, _)
TagNameEnd(s, i) ==
  IF i <= Len(s) /\ (IsWordChar(s[i]) \/ s[i] = "-") THEN TagNameEnd(s, i + 1) ELSE i

\* PATTERNS.bbcode, /\[\/?[\w-]+(?:=[^\]]*)?]/gi, tried at position i: the
\* position of the match's last character, 0 when it does not match there.
BBCodeMatchEnd(s, i) ==
  IF i > Len(s) \/ s[i] # "["
    THEN 0
    ELSE LET j == IF i + 1 <= Len(s) /\ s[i + 1] = "/" THEN i + 2 ELSE i + 1
             k == TagNameEnd(s, j)
         IN  IF k = j \/ k > Len(s) THEN 0
             ELSE IF s[k] = "]" THEN k
             ELSE IF s[k] = "=" THEN FirstClose(s, k + 1)
             ELSE 0

\* result.replace(PATTERNS.bbcode, '') from position i on.
RECURSIVE StripBBCodeFrom(_, _)
StripBBCodeFrom(s, i) ==
  IF i > Len(s) THEN <<>>
  ELSE LET e == BBCodeMatchEnd(s, i)
       IN  IF e > 0 THEN StripBBCodeFrom(s, e + 1)
                    ELSE <<s[i]>> \o StripBBCodeFrom(s, i + 1)

DateOpen == <<"[","d","a","t","e","=">>

\* PATTERNS.discourseDate, /\[date=[^\]]+\]/gi, tried at position i.
DateMatchEnd(s, i) ==
  IF MatchAt(ToLowerCase(s), i, DateOpen)
    THEN LET e == FirstClose(s, i + Len(DateOpen))
         IN  IF e > i + Len(DateOpen) THEN e ELSE 0
    ELSE 0

\* result.replace(PATTERNS.discourseDate, '') from position i on.
RECURSIVE StripDateFrom(_, _)
StripDateFrom(s, i) ==
  IF i > Len(s) THEN <<>>
  ELSE LET e == DateMatchEnd(s, i)
       IN  IF e > 0 THEN StripDateFrom(s, e + 1)
                    ELSE <<s[i]>> \o StripDateFrom(s, i + 1)

\* result.replace(/^\||\|$/g, '') and then result.replace(/\|/g, ' ').
StripTablePipes(s) ==
  LET a == IF s # <<>> /\ Head(s) = "|" THEN Tail(s) ELSE s
      b == IF a # <<>> /\ a[Len(a)] = "|" THEN SubSeq(a, 1, Len(a) - 1) ELSE a
  IN  [i \in 1..Len(b) |-> IF b[i] = "|" THEN " " ELSE b[i]]

\* stripAllSyntax without its first replace, the one of PATTERNS.bbcode.
stripKeepingTags(text) ==
  IF text = <<>> THEN <<>>
  ELSE Trim(StripTablePipes(StripDateFrom(text, 1)))

\* stripAllSyntax(text): the replace steps that can match the model's inputs,
\* in the order of the source, then trim().
stripAllSyntax(text) ==
  IF text = <<>> THEN <<>>
  ELSE Trim(StripTablePipes(StripDateFrom(StripBBCodeFrom(text, 1), 1)))

\* .replace(/\s+/g, ' '): every run of white space becomes one space.
RECURSIVE CollapseSpaces(_)
CollapseSpaces(s) ==
  IF s = <<>> THEN <<>>
  ELSE IF IsSpaceChar(Head(s))
    THEN <<" ">> \o CollapseSpaces(TrimStart(s))
    ELSE <<Head(s)>> \o CollapseSpaces(Tail(s))

\* The characters that /[^\w\s\u00C0-\u024F\u1E00-\u1EFF]/g leaves in place
\* (the inputs are ASCII, so the two Latin ranges add nothing).
IsKeptChar(c) == IsWordChar(c) \/ IsSpaceChar(c)

\* normalizeText(text)
normalizeText(text) ==
  IF text = <<>> THEN <<>>
  ELSE Trim(SelectSeq(CollapseSpaces(ToLowerCase(text)), IsKeptChar))

\* w => w.length > 2
IsLongWord(w) == Len(w) > 2

\* str.split(' ').filter(w => w.length > 2)
LongWords(str) == SelectSeq(SplitOn(str, " "), IsLongWord)

\* words2.some(w => w.includes(word) || word.includes(w))
WordOverlaps(word, words2) ==
  \E k \in 1..Len(words2) : Includes(words2[k], word) \/ Includes(word, words2[k])

\* The count of the words of words1 that overlap a word of words2.
MatchCount(words1, words2) ==
  Cardinality({k \in 1..Len(words1) : WordOverlaps(words1[k], words2)})

\* fuzzyMatch(str1, str2)
fuzzyMatch(str1, str2) ==
  IF str1 = <<>> \/ str2 = <<>> THEN FALSE
  ELSE LET shorter == IF Len(str1) < Len(str2) THEN str1 ELSE str2
           longer  == IF Len(str1) < Len(str2) THEN str2 ELSE str1
           words1  == LongWords(shorter)
           words2  == LongWords(longer)
       IN  IF Len(shorter) < 3 THEN shorter = longer
           ELSE IF Len(words1) = 0 THEN FALSE
           ELSE 2 * MatchCount(words1, words2) >= Len(words1)

Min2(a, b) == IF a < b THEN a ELSE b

Max2(a, b) == IF a < b THEN b ELSE a

\* getMatchScore whose containment tier divides the first length by the
\* second instead of the shorter by the longer.
getMatchScoreUnordered(str1, str2) ==
  IF str1 = <<>> \/ str2 = <<>> THEN <<0, 1>>
  ELSE IF str1 = str2 THEN <<1, 1>>
  ELSE IF Includes(str1, str2) \/ Includes(str2, str1)
    THEN <<Len(str1), Len(str2)>>
  ELSE LET words1 == LongWords(str1)
           words2 == LongWords(str2)
       IN  IF Len(words1) = 0 \/ Len(words2) = 0 THEN <<0, 1>>
           ELSE <<MatchCount(words1, words2), Max2(Len(words1), Len(words2))>>

\* getMatchScore(str1, str2): the score as the fraction <<numerator, denominator>>.
getMatchScore(str1, str2) ==
  IF str1 = <<>> \/ str2 = <<>> THEN <<0, 1>>
  ELSE IF str1 = str2 THEN <<1, 1>>
  ELSE IF Includes(str1, str2) \/ Includes(str2, str1)
    THEN <<Min2(Len(str1), Len(str2)), Max2(Len(str1), Len(str2))>>
  ELSE LET words1 == LongWords(str1)
           words2 == LongWords(str2)
       IN  IF Len(words1) = 0 \/ Len(words2) = 0 THEN <<0, 1>>
           ELSE <<MatchCount(words1, words2), Max2(Len(words1), Len(words2))>>

\* p > q for two fractions with positive denominators.
FracGT(p, q) == p[1] * q[2] > q[1] * p[2]

\* ------------------------------------------------------------------------
\* The documents: a textarea value and the preview tree rendered from it
\* ------------------------------------------------------------------------

\* Element ids.  The preview's nodes are 1..n in document order; a node's
\* parent is a smaller id or the preview wrapper.
Wrapper == 0

ScrollParentEl == -1

NoEl == -3

\* data-ln of a node that carries no such attribute.
NoLn == -1

\* The outcome null of a resolution (no line, no element).
NoLine == -1

\* A document is the textarea's value, the preview tree rendered from it and
\* the browser (isSafari()).  A preview node: tag name, parent, data-ln, textContent, class selectors,
\* and its layout (offsetTop, offsetParent).
Node(tag, parent, ln, text, cls, top, offParent) ==
  [tag |-> tag, parent |-> parent, ln |-> ln, text |-> text, cls |-> cls,
   offsetTop |-> top, offsetParent |-> offParent]

\* Markdown with data-ln on the blocks, an inline child, and a video box.
\* Lines: "Aa", "", "bb cc", "x.mp4".
WorldMarkdown ==
  [safari |-> FALSE,
   value |-> <<"A","a","\n","\n","b","b"," ","c","c","\n","x",".","m","p","4">>,
   nodes |-> <<Node("p", Wrapper, 0, <<"A","a">>, {}, 0, Wrapper),
               Node("p", Wrapper, 2, <<"b","b"," ","c","c">>, {}, 20, Wrapper),
               Node("em", 2, NoLn, <<"c","c">>, {}, 2, 2),
               Node("div", Wrapper, 3, <<>>, {".video-container"}, 40, Wrapper)>>]

\* BBCode, which the renderer leaves without data-ln, in Safari.
\* Lines: "[b]aa[/b]", "bb cc", "=.".
WorldBBCode ==
  [safari |-> TRUE,
   value |-> <<"[","b","]","a","a","[","/","b","]","\n","b","b"," ","c","c","\n","=",".">>,
   nodes |-> <<Node("p", Wrapper, NoLn, <<"a","a">>, {}, 0, Wrapper),
               Node("b", 1, NoLn, <<"a","a">>, {}, 0, 1),
               Node("p", Wrapper, NoLn, <<"b","b"," ","c","c">>, {}, 20, Wrapper),
               Node("p", Wrapper, NoLn, <<"=",".">>, {}, 40, Wrapper)>>]

\* A collapsible section whose two body lines read the same.
\* Lines: [details="a"], "bb", "bb", "[/details]".
WorldDetails ==
  [safari |-> FALSE,
   value |-> <<"[","d","e","t","a","i","l","s","=","\"","a","\"","]","\n","b","b","\n","b","b","\n","[","/","d","e","t","a","i","l","s","]">>,
   nodes |-> <<Node("details", Wrapper, 0, <<"a","b","b","b","b">>, {}, 0, Wrapper),
               Node("summary", 1, NoLn, <<"a">>, {}, 0, 1),
               Node("p", 1, 1, <<"b","b">>, {}, 10, 1),
               Node("p", 1, 2, <<"b","b">>, {}, 20, 1)>>]

Worlds == <<WorldMarkdown, WorldBBCode, WorldDetails>>

\* previewWrapper.clientHeight and the wrapper's own layout.
WrapperClientHeight == 20

WrapperOffsetTop == 0

\* ------------------------------------------------------------------------
\* DOM queries on the preview tree
\* ------------------------------------------------------------------------

NodeIds(nodes) == DOMAIN nodes

\* element.matches(selector) for a tag or class selector.  No node of the
\* model carries data-poll-name, data-date or an iframe src, so the attribute
\* selectors of the source select nothing and are left out of the lists.
Matches(node, sels) == node.tag \in sels \/ (node.cls \cap sels) # {}

\* previewWrapper.querySelectorAll(selectors): the matching nodes, in document order.
QuerySelectorAll(nodes, sels) ==
  LET Hit(n) == Matches(nodes[n], sels)
  IN  SelectSeq([i \in 1..Len(nodes) |-> i], Hit)

\* element.closest(selectors): the nearest matching ancestor-or-self.  The
\* wrapper and what is above it match none of the selectors the source asks for.
RECURSIVE Closest(_, _, _)
Closest(nodes, n, sels) ==
  IF n < 1 THEN NoEl
  ELSE IF Matches(nodes[n], sels) THEN n
  ELSE Closest(nodes, nodes[n].parent, sels)

\* node is inside (or is) the element root.
RECURSIVE IsWithin(_, _, _)
IsWithin(nodes, n, root) ==
  IF n < 1 THEN FALSE
  ELSE IF n = root THEN TRUE
  ELSE IsWithin(nodes, nodes[n].parent, root)

\* root.querySelector(selectors): the first matching descendant, NoEl when none.
QuerySelectorIn(nodes, root, sels) ==
  LET hits == {n \in NodeIds(nodes) : n # root /\ IsWithin(nodes, n, root)
                                      /\ Matches(nodes[n], sels)}
  IN  IF hits = {} THEN NoEl ELSE CHOOSE n \in hits : \A m \in hits : n <= m

\* ------------------------------------------------------------------------
\* PATTERNS.detailsOpen and PATTERNS.detailsClose
\* ------------------------------------------------------------------------

DetailsOpenLit == <<"[","d","e","t","a","i","l","s","=","\"">>

DetailsCloseLit == <<"[","/","d","e","t","a","i","l","s","]">>

\* The position of the first double quote at or after position i, 0 when none.
FirstQuote(s, i) ==
  IF \E k \in i..Len(s) : s[k] = "\""
    THEN CHOOSE k \in i..Len(s) : s[k] = "\"" /\ \A j \in i..(k - 1) : s[j] # "\""
    ELSE 0

\* /\[details="([^"]+)"\]/i matches the line at position p.
DetailsOpenAt(line, p) ==
  /\ MatchAt(ToLowerCase(line), p, DetailsOpenLit)
  /\ LET t == p + Len(DetailsOpenLit)
         c == FirstQuote(line, t)
     IN  c > t /\ c + 1 <= Len(line) /\ line[c + 1] = "]"

\* PATTERNS.detailsOpen.test(line)
DetailsOpenTest(line) == \E p \in 1..Len(line) : DetailsOpenAt(line, p)

\* line.match(PATTERNS.detailsOpen)[1]: the title of the first match.
DetailsOpenTitle(line) ==
  LET p == CHOOSE k \in 1..Len(line) :
             DetailsOpenAt(line, k) /\ \A j \in 1..(k - 1) : ~DetailsOpenAt(line, j)
      t == p + Len(DetailsOpenLit)
  IN  SubSeq(line, t, FirstQuote(line, t) - 1)

\* PATTERNS.detailsClose.test(line)
DetailsCloseTest(line) == HasCI(line, DetailsCloseLit)

\* ------------------------------------------------------------------------
\* LINE NUMBER BASED MATCHING
\* ------------------------------------------------------------------------

\* findElementByLineNumber taking previewElements[0] instead of the last one.
RECURSIVE findFirstElementByLineNumber(_, _)
findFirstElementByLineNumber(nodes, line) ==
  IF line = NoLine THEN NoEl
  ELSE LET previewElements == {n \in NodeIds(nodes) : nodes[n].ln = line}
       IN  IF previewElements # {}
             THEN CHOOSE n \in previewElements : \A m \in previewElements : n <= m
           ELSE IF line = 0 THEN NoEl
           ELSE findFirstElementByLineNumber(nodes, line - 1)

\* findElementByLineNumber(line): the last node with data-ln = line, else
\* the search goes on at line - 1, down to line 0.
RECURSIVE findElementByLineNumber(_, _)
findElementByLineNumber(nodes, line) ==
  IF line = NoLine THEN NoEl
  ELSE LET previewElements == {n \in NodeIds(nodes) : nodes[n].ln = line}
       IN  IF previewElements # {}
             THEN CHOOSE n \in previewElements : \A m \in previewElements : m <= n
           ELSE IF line = 0 THEN NoEl
           ELSE findElementByLineNumber(nodes, line - 1)

\* getLineNumber(target): data-ln of the nearest ancestor-or-self that has
\* one; the walk ends above the wrapper, where no element carries data-ln.
RECURSIVE getLineNumber(_, _)
getLineNumber(nodes, target) ==
  IF target < 1 THEN NoLine
  ELSE IF nodes[target].ln # NoLn THEN nodes[target].ln
  ELSE getLineNumber(nodes, nodes[target].parent)

\* getLineText(lineNumber): lines[lineNumber] || ''
getLineText(value, lineNumber) ==
  LET lines == SplitLines(value)
  IN  IF lineNumber >= 0 /\ lineNumber < Len(lines) THEN lines[lineNumber + 1] ELSE <<>>

\* ------------------------------------------------------------------------
\* CONTENT-BASED MATCHING, preview -> editor
\* ------------------------------------------------------------------------

\* The lowest member of a set of line indices, NoLine for the empty set:
\* what a for loop over the lines that returns at its first hit yields.
FirstLineIn(S) == IF S = {} THEN NoLine ELSE CHOOSE i \in S : \A j \in S : i <= j

\* normalizeText(stripAllSyntax(lines[i])) for the 0-based line i.
NormalizedLine(lines, i) == normalizeText(stripAllSyntax(lines[i + 1]))

LineIndices(lines) == 0..(Len(lines) - 1)

\* First pass of findLineByContent: exact match.
ExactPass(lines, normalizedTarget) ==
  {i \in LineIndices(lines) :
     /\ NormalizedLine(lines, i) # <<>> /\ normalizedTarget # <<>>
     /\ NormalizedLine(lines, i) = normalizedTarget}

\* Second pass: contains match, either direction.
ContainsPass(lines, normalizedTarget) ==
  {i \in LineIndices(lines) :
     /\ NormalizedLine(lines, i) # <<>> /\ normalizedTarget # <<>>
     /\ \/ Includes(NormalizedLine(lines, i), normalizedTarget)
        \/ Includes(normalizedTarget, NormalizedLine(lines, i))}

\* Third pass: fuzzy match.
FuzzyPass(lines, normalizedTarget) ==
  {i \in LineIndices(lines) :
     /\ NormalizedLine(lines, i) # <<>> /\ normalizedTarget # <<>>
     /\ fuzzyMatch(NormalizedLine(lines, i), normalizedTarget)}

\* findLineByContent with its second loop run before its first.
findLineContainsFirst(value, textContent) ==
  LET elementText == Trim(textContent)
      lines == SplitLines(value)
      normalizedTarget == normalizeText(elementText)
  IN  IF elementText = <<>> THEN NoLine
      ELSE IF ContainsPass(lines, normalizedTarget) # {}
        THEN FirstLineIn(ContainsPass(lines, normalizedTarget))
      ELSE IF ExactPass(lines, normalizedTarget) # {}
        THEN FirstLineIn(ExactPass(lines, normalizedTarget))
      ELSE FirstLineIn(FuzzyPass(lines, normalizedTarget))

\* The highest member of a set of line indices, NoLine for the empty set.
LastLineIn(S) == IF S = {} THEN NoLine ELSE CHOOSE i \in S : \A j \in S : j <= i

\* findLineByContent with a third loop that goes on after a hit, so that the
\* last fuzzy line is the one returned.
findLineLastFuzzy(value, textContent) ==
  LET elementText == Trim(textContent)
      lines == SplitLines(value)
      normalizedTarget == normalizeText(elementText)
  IN  IF elementText = <<>> THEN NoLine
      ELSE IF ExactPass(lines, normalizedTarget) # {}
        THEN FirstLineIn(ExactPass(lines, normalizedTarget))
      ELSE IF ContainsPass(lines, normalizedTarget) # {}
        THEN FirstLineIn(ContainsPass(lines, normalizedTarget))
      ELSE LastLineIn(FuzzyPass(lines, normalizedTarget))

\* findLineByContent(element), for an element with the given textContent
\* and a textarea holding value.
findLineByContent(value, textContent) ==
  LET elementText == Trim(textContent)
      lines == SplitLines(value)
      normalizedTarget == normalizeText(elementText)
  IN  IF elementText = <<>> THEN NoLine
      ELSE IF ExactPass(lines, normalizedTarget) # {}
        THEN FirstLineIn(ExactPass(lines, normalizedTarget))
      ELSE IF ContainsPass(lines, normalizedTarget) # {}
        THEN FirstLineIn(ContainsPass(lines, normalizedTarget))
      ELSE FirstLineIn(FuzzyPass(lines, normalizedTarget))

\* ------------------------------------------------------------------------
\* DETAILS/SUMMARY SPECIAL HANDLING
\* ------------------------------------------------------------------------

\* A match of the details rules: { line, element }; null is NoMatch.
NoMatch == [line |-> NoLine, element |-> NoEl]

\* The title in the tag of line i agrees with the summary text.
TitleAgrees(lines, i, summaryText) ==
  LET normalizedTitle == normalizeText(DetailsOpenTitle(lines[i + 1]))
      normalizedSummary == normalizeText(summaryText)
  IN  \/ normalizedTitle = normalizedSummary
      \/ Includes(normalizedTitle, normalizedSummary)
      \/ Includes(normalizedSummary, normalizedTitle)

\* _findDetailsOpeningLine(summaryText, detailsElement)
findDetailsOpeningLine(value, summaryText, detailsElement) ==
  LET lines == SplitLines(value)
      opens == {i \in LineIndices(lines) : DetailsOpenTest(lines[i + 1])}
      byTitle == {i \in opens : summaryText = <<>> \/ TitleAgrees(lines, i, summaryText)}
  IN  IF byTitle # {} THEN [line |-> FirstLineIn(byTitle), element |-> detailsElement]
      ELSE IF opens # {} THEN [line |-> FirstLineIn(opens), element |-> detailsElement]
      ELSE NoMatch

\* The loop of _findDetailsContentLine that finds the block: from line i
\* on, with the last opening line seen so far; <<detailsStart, detailsEnd>>.
RECURSIVE DetailsBounds(_, _, _)
DetailsBounds(lines, i, detailsStart) ==
  IF i >= Len(lines) THEN <<detailsStart, -1>>
  ELSE LET start == IF DetailsOpenTest(lines[i + 1]) THEN i ELSE detailsStart
       IN  IF start >= 0 /\ DetailsCloseTest(lines[i + 1])
             THEN <<start, i>>
             ELSE DetailsBounds(lines, i + 1, start)

\* _findDetailsContentLine(target, detailsElement)
findDetailsContentLine(value, textContent) ==
  LET lines == SplitLines(value)
      targetText == Trim(textContent)
      bounds == DetailsBounds(lines, 0, -1)
      detailsStart == bounds[1]
      detailsEnd == bounds[2]
      normalizedTarget == normalizeText(targetText)
      last == IF detailsEnd > 0 THEN detailsEnd ELSE Len(lines)
      hits == {i \in (detailsStart + 1)..(last - 1) :
                 /\ NormalizedLine(lines, i) # <<>> /\ normalizedTarget # <<>>
                 /\ \/ NormalizedLine(lines, i) = normalizedTarget
                    \/ Includes(NormalizedLine(lines, i), normalizedTarget)
                    \/ Includes(normalizedTarget, NormalizedLine(lines, i))}
  IN  IF targetText = <<>> THEN NoLine
      ELSE IF detailsStart < 0 THEN NoLine
      ELSE IF hits # {} THEN FirstLineIn(hits)
      ELSE IF detailsEnd > 0 THEN detailsEnd
      ELSE NoLine

\* _handleDetailsClick(target), with this.textArea set.
handleDetailsClick(value, nodes, target) ==
  LET summary == Closest(nodes, target, {"summary"})
      details == Closest(nodes, target, {"details"})
      contentLine == findDetailsContentLine(value, nodes[target].text)
  IN  IF summary # NoEl
        THEN findDetailsOpeningLine(value, Trim(nodes[summary].text),
                                    Closest(nodes, summary, {"details"}))
      ELSE IF details # NoEl /\ contentLine # NoLine
        THEN [line |-> contentLine, element |-> target]
      ELSE NoMatch

\* ------------------------------------------------------------------------
\* VIDEO SPECIAL HANDLING
\* ------------------------------------------------------------------------

VideoLiterals ==
  {<<"<","v","i","d","e","o">>, <<"[","v","i","d","e","o","]">>, <<".","m","p","4">>, <<".","w","e","b","m">>, <<".","o","g","g">>, <<".","m","o","v">>, <<"y","o","u","t","u","b","e",".","c","o","m">>, <<"y","o","u","t","u",".","b","e">>, <<"v","i","m","e","o",".","c","o","m">>}

\* The four tests of the loop of _handleVideoClick on one line.
IsVideoLine(line) == \E lit \in VideoLiterals : HasCI(line, lit)

\* _handleVideoClick(target)
handleVideoClick(value, nodes, target) ==
  LET video == Closest(nodes, target, {"video"})
      videoContainer == Closest(nodes, target,
                          {".video-container", ".video-placeholder-container", ".onebox-video"})
      lines == SplitLines(value)
  IN  IF video = NoEl /\ videoContainer = NoEl THEN NoLine
      ELSE FirstLineIn({i \in LineIndices(lines) : IsVideoLine(lines[i + 1])})

\* ------------------------------------------------------------------------
\* EDITOR -> PREVIEW resolution
\* ------------------------------------------------------------------------

\* The first / last element of a node list, NoEl for the empty list.
FirstOf(list) == IF Len(list) = 0 THEN NoEl ELSE list[1]

LastOf(list) == IF Len(list) = 0 THEN NoEl ELSE list[Len(list)]

\* The first member of a list of nodes that satisfies Pred, NoEl when none.
FirstWhere(list, Pred(_)) == FirstOf(SelectSeq(list, Pred))

\* The details element whose first summary agrees with the title.
SummaryAgrees(nodes, details, normalizedTitle) ==
  LET summary == QuerySelectorIn(nodes, details, {"summary"})
      summaryText == normalizeText(nodes[summary].text)
  IN  /\ summary # NoEl
      /\ \/ summaryText = normalizedTitle
         \/ Includes(summaryText, normalizedTitle)
         \/ Includes(normalizedTitle, summaryText)

\* The nearest line above lineNumber that has text and is neither tag of a
\* details block, NoLine when there is none (the backwards loop up to its break).
RECURSIVE PrevContentLine(_, _)
PrevContentLine(lines, i) ==
  IF i < 0 THEN NoLine
  ELSE LET prevLine == Trim(lines[i + 1])
       IN  IF prevLine # <<>> /\ ~DetailsOpenTest(prevLine) /\ ~DetailsCloseTest(prevLine)
             THEN i
             ELSE PrevContentLine(lines, i - 1)

\* _findPreviewElementForDetailsSyntax(lineText, lineNumber), with
\* this.previewWrapper set.
findPreviewElementForDetailsSyntax(value, nodes, lineText, lineNumber) ==
  LET allDetails == QuerySelectorAll(nodes, {"details"})
      lines == SplitLines(value)
      AgreesWithTitle(d) ==
        SummaryAgrees(nodes, d, normalizeText(DetailsOpenTitle(lineText)))
      prev == PrevContentLine(lines, lineNumber - 1)
      normalizedPrev == normalizeText(stripAllSyntax(Trim(lines[prev + 1])))
      HoldsPrev(d) == Includes(normalizeText(nodes[d].text), normalizedPrev)
  IN  IF DetailsOpenTest(lineText) /\ Len(allDetails) > 0
        THEN IF FirstWhere(allDetails, AgreesWithTitle) # NoEl
               THEN FirstWhere(allDetails, AgreesWithTitle)
               ELSE allDetails[1]
      ELSE IF DetailsCloseTest(lineText)
        THEN IF prev # NoLine /\ normalizedPrev # <<>>
                /\ FirstWhere(allDetails, HoldsPrev) # NoEl
               THEN FirstWhere(allDetails, HoldsPrev)
               ELSE LastOf(allDetails)
      ELSE NoEl

\* The literal tags getExpectedElementTypes looks for, with the selectors
\* each adds; the rules triggered by "#", "*", "-", "+", a digit, "`", ">",
\* "(", "!" or "<" cannot fire on the model's inputs.
ExpectedTypeRules ==
  {[lit |-> <<"[","l","i","]">>,      sels |-> {"li", "ul", "ol"}],
   [lit |-> <<"|">>,   sels |-> {"table", "tr", "td", "th"}],
   [lit |-> <<"[","q","u","o","t","e">>,   sels |-> {"blockquote", ".quote"}],
   [lit |-> <<"[","c","o","d","e","]">>,    sels |-> {"code", "pre"}],
   [lit |-> <<"[","u","r","l">>,     sels |-> {"a"}],
   [lit |-> <<"[","i","m","g","]">>,     sels |-> {"img", ".lightbox-wrapper"}],
   [lit |-> <<"[","v","i","d","e","o","]">>,   sels |-> {"video", ".video-container", ".onebox"}],
   [lit |-> <<".","m","p","4">>,     sels |-> {"video", ".video-container", ".onebox"}],
   [lit |-> <<".","w","e","b","m">>,    sels |-> {"video", ".video-container", ".onebox"}],
   [lit |-> <<".","o","g","g">>,     sels |-> {"video", ".video-container", ".onebox"}],
   [lit |-> <<"[","b","]">>,       sels |-> {"strong", "b"}],
   [lit |-> <<"[","i","]">>,       sels |-> {"em", "i"}],
   [lit |-> <<"[","d","e","t","a","i","l","s">>, sels |-> {"details", "summary"}],
   [lit |-> <<"[","s","p","o","i","l","e","r">>, sels |-> {".spoiler"}],
   [lit |-> <<"[","p","o","l","l">>,    sels |-> {".poll"}],
   [lit |-> <<"[","d","a","t","e">>,    sels |-> {".discourse-local-date"}]}

\* getExpectedElementTypes(lineText), as the set of selectors.
getExpectedElementTypes(lineText) ==
  {"p", "li", "span", "div"}
    \cup UNION {r.sels : r \in {x \in ExpectedTypeRules : HasCI(lineText, x.lit)}}

\* The acceptance threshold of findElementByContent, 0.3, as a fraction.
ContentThreshold == <<3, 10>>

\* findElementByContent without its skip of the candidates that carry
\* another line's data-ln.
findElementByContentAnyLn(nodes, lineText, lineNumber) ==
  LET normalizedLine == normalizeText(stripAllSyntax(lineText))
      candidates == QuerySelectorAll(nodes, getExpectedElementTypes(lineText))
      Score(n) == getMatchScore(normalizedLine, normalizeText(nodes[n].text))
      Eligible(n) ==
        /\ normalizeText(nodes[n].text) # <<>>
        /\ FracGT(Score(n), ContentThreshold)
      eligible == SelectSeq(candidates, Eligible)
      Best(n) == \A k \in 1..Len(eligible) : ~FracGT(Score(eligible[k]), Score(n))
  IN  IF lineText = <<>> \/ normalizedLine = <<>> THEN NoEl
      ELSE FirstWhere(eligible, Best)

\* findElementByContent(lineText, lineNumber), with this.previewWrapper set.
findElementByContent(nodes, lineText, lineNumber) ==
  LET normalizedLine == normalizeText(stripAllSyntax(lineText))
      candidates == QuerySelectorAll(nodes, getExpectedElementTypes(lineText))
      Score(n) == getMatchScore(normalizedLine, normalizeText(nodes[n].text))
      Eligible(n) ==
        /\ nodes[n].ln = NoLn \/ nodes[n].ln = lineNumber
        /\ normalizeText(nodes[n].text) # <<>>
        /\ FracGT(Score(n), ContentThreshold)
      eligible == SelectSeq(candidates, Eligible)
      Best(n) == \A k \in 1..Len(eligible) : ~FracGT(Score(eligible[k]), Score(n))
  IN  IF lineText = <<>> \/ normalizedLine = <<>> THEN NoEl
      ELSE FirstWhere(eligible, Best)

\* element.parentElement || element, for a preview node.
ParentOrSelf(nodes, n) == nodes[n].parent

\* The rules of findElementBySpecialSyntax from the image rule to the
\* blockquote rule, in the order of the source.  No buffer of the model holds
\* "|", "![" or a heading marker, so the table, alt-text and heading rules
\* are never triggered; the emoji rule, the last one, is added by
\* findElementBySpecialSyntaxFrom, and no line of Worlds holds ":".
findElementBySpecialSyntax(nodes, lineText) ==
  LET images   == QuerySelectorAll(nodes, {"img"})
      videos   == QuerySelectorAll(nodes, {"video", ".video-container", ".onebox", ".onebox-video"})
      polls    == QuerySelectorAll(nodes, {".poll"})
      dates    == QuerySelectorAll(nodes, {".discourse-local-date"})
      details  == QuerySelectorAll(nodes, {"details"})
      spoilers == QuerySelectorAll(nodes, {".spoiler", ".spoiled", ".spoiler-blurred"})
      codes    == QuerySelectorAll(nodes, {"pre", "code"})
      quotes   == QuerySelectorAll(nodes, {"blockquote", ".quote"})
      AgreesWithTitle(d) ==
        LET summary == QuerySelectorIn(nodes, d, {"summary"})
            summaryText == normalizeText(nodes[summary].text)
            normalizedTitle == normalizeText(DetailsOpenTitle(lineText))
        IN  /\ summary # NoEl
            /\ \/ Includes(summaryText, normalizedTitle)
               \/ Includes(normalizedTitle, summaryText)
  IN  IF lineText = <<>> THEN NoEl
      ELSE IF HasCI(lineText, <<"[","i","m","g","]">>) /\ Len(images) > 0
        THEN ParentOrSelf(nodes, images[1])
      ELSE IF IsVideoLine(lineText) /\ Len(videos) > 0 THEN videos[1]
      ELSE IF HasCI(lineText, <<"[","p","o","l","l">>) /\ Len(polls) > 0 THEN polls[1]
      ELSE IF HasCI(lineText, DateOpen) /\ Len(dates) > 0 THEN dates[1]
      ELSE IF DetailsOpenTest(lineText) /\ Len(details) > 0
        THEN IF FirstWhere(details, AgreesWithTitle) # NoEl
               THEN FirstWhere(details, AgreesWithTitle)
               ELSE details[1]
      ELSE IF DetailsCloseTest(lineText) /\ Len(details) > 0 THEN LastOf(details)
      ELSE IF HasCI(lineText, <<"[","s","p","o","i","l","e","r","]">>) /\ Len(spoilers) > 0 THEN spoilers[1]
      ELSE IF HasCI(lineText, <<"[","c","o","d","e","]">>) /\ Len(codes) > 0 THEN codes[1]
      ELSE IF HasCI(lineText, <<"[","q","u","o","t","e">>) /\ Len(quotes) > 0 THEN quotes[1]
      ELSE NoEl

\* The line of the caret: textUpToCursor.split("\n").length - 1.
LineNumberAt(value, cursorPosition) ==
  Len(SplitLines(SubSeq(value, 1, cursorPosition))) - 1

\* if (!previewElement) previewElement = next: the element found so far, or
\* else the one the next rule finds.
OrElse(previewElement, next) == IF previewElement # NoEl THEN previewElement ELSE next

\* The rules of _syncEditorToPreview for the line of the caret and its text:
\* details syntax, then data-ln, then content (for a line that is not
\* empty), then special syntax; NoEl when nothing is found.
ResolveLineText(value, nodes, lineNumber, currentLineText) ==
  OrElse(findPreviewElementForDetailsSyntax(value, nodes, currentLineText, lineNumber),
    OrElse(findElementByLineNumber(nodes, lineNumber),
      OrElse(IF currentLineText # <<>>
               THEN findElementByContent(nodes, currentLineText, lineNumber)
               ELSE NoEl,
             findElementBySpecialSyntax(nodes, currentLineText))))

ResolveLine(value, nodes, lineNumber) ==
  ResolveLineText(value, nodes, lineNumber, getLineText(value, lineNumber))

\* The resolution of _syncEditorToPreview for the caret at cursorPosition.
resolvePreviewElement(value, nodes, cursorPosition) ==
  ResolveLine(value, nodes, LineNumberAt(value, cursorPosition))

\* The position after the longest run of [\w_+-] that starts at position i.
RECURSIVE EmojiNameEnd(_, _)
EmojiNameEnd(s, i) ==
  IF i <= Len(s) /\ (IsWordChar(s[i]) \/ s[i] \in {"+", "-"})
    THEN EmojiNameEnd(s, i + 1)
    ELSE i

\* PATTERNS.discourseEmoji, /:[\w_+-]+:/g, matches at the 1-based position p.
EmojiMatchAt(s, p) ==
  /\ p <= Len(s) /\ s[p] = ":"
  /\ LET e == EmojiNameEnd(s, p + 1)
     IN  e > p + 1 /\ e <= Len(s) /\ s[e] = ":"

\* PATTERNS.discourseEmoji.test(lineText): the pattern has the g flag, so
\* the search starts at the pattern's lastIndex (0-based) and leaves
\* lastIndex after the match it finds, or at 0 when it finds none.
EmojiTest(lineText, lastIndex) ==
  IF \E p \in (lastIndex + 1)..Len(lineText) : EmojiMatchAt(lineText, p)
    THEN LET p == CHOOSE k \in (lastIndex + 1)..Len(lineText) :
                    /\ EmojiMatchAt(lineText, k)
                    /\ \A j \in (lastIndex + 1)..(k - 1) : ~EmojiMatchAt(lineText, j)
         IN  [found |-> TRUE, lastIndex |-> EmojiNameEnd(lineText, p + 1)]
    ELSE [found |-> FALSE, lastIndex |-> 0]

\* The emoji rule, the last of findElementBySpecialSyntax, reached when the
\* rules before it found nothing: emojis[0].closest('p') || emojis[0].
EmojiRule(nodes, test) ==
  LET emojis == QuerySelectorAll(nodes, {".emoji"})
  IN  [element |-> IF test.found /\ Len(emojis) > 0
                     THEN OrElse(Closest(nodes, emojis[1], {"p"}), emojis[1])
                     ELSE NoEl,
       lastIndex |-> test.lastIndex]

\* The end of findElementBySpecialSyntax given what its rules before the
\* emoji rule found.
SpecialSyntaxEnd(nodes, lineText, lastIndex, found) ==
  IF lineText = <<>> \/ found # NoEl
    THEN [element |-> found, lastIndex |-> lastIndex]
    ELSE EmojiRule(nodes, EmojiTest(lineText, lastIndex))

\* findElementBySpecialSyntax(lineText, lineNumber) with the lastIndex of
\* PATTERNS.discourseEmoji before the call: the element and the lastIndex
\* after it.
findElementBySpecialSyntaxFrom(nodes, lineText, lastIndex) ==
  SpecialSyntaxEnd(nodes, lineText, lastIndex, findElementBySpecialSyntax(nodes, lineText))

\* A rule of _syncEditorToPreview that was not asked.
NotRun == -2

\* The rule found no element, or was not asked.
Nothing(element) == element \in {NoEl, NotRun}

\* What the rules of _syncEditorToPreview found, in their order, and the
\* element the method ends with.
MoveEnd(details, annotation, content, special) ==
  [details |-> details, annotation |-> annotation, content |-> content,
   special |-> special.element, lastIndex |-> special.lastIndex,
   element |-> IF ~Nothing(details) THEN details
               ELSE IF ~Nothing(annotation) THEN annotation
               ELSE IF ~Nothing(content) THEN content
               ELSE IF ~Nothing(special.element) THEN special.element
               ELSE NoEl]

\* if (!previewElement) previewElement = this.findElementBySpecialSyntax(...)
MoveAfterContent(nodes, currentLineText, lastIndex, details, annotation, content) ==
  MoveEnd(details, annotation, content,
          IF Nothing(details) /\ Nothing(annotation) /\ Nothing(content)
            THEN findElementBySpecialSyntaxFrom(nodes, currentLineText, lastIndex)
            ELSE [element |-> NotRun, lastIndex |-> lastIndex])

\* if (!previewElement && currentLineText) previewElement = this.findElementByContent(...)
MoveAfterAnnotation(nodes, lineNumber, currentLineText, lastIndex, details, annotation) ==
  MoveAfterContent(nodes, currentLineText, lastIndex, details, annotation,
                   IF Nothing(details) /\ Nothing(annotation) /\ currentLineText # <<>>
                     THEN findElementByContent(nodes, currentLineText, lineNumber)
                     ELSE NotRun)

\* if (!previewElement) previewElement = this.findElementByLineNumber(lineNumber)
MoveAfterDetails(nodes, lineNumber, currentLineText, lastIndex, details) ==
  MoveAfterAnnotation(nodes, lineNumber, currentLineText, lastIndex, details,
                      IF Nothing(details)
                        THEN findElementByLineNumber(nodes, lineNumber)
                        ELSE NotRun)

\* The resolution of _syncEditorToPreview for the caret on lineNumber, rule
\* by rule, with the lastIndex of PATTERNS.discourseEmoji before the call.
syncResolution(value, nodes, lineNumber, lastIndex) ==
  MoveAfterDetails(nodes, lineNumber, getLineText(value, lineNumber), lastIndex,
                   findPreviewElementForDetailsSyntax(value, nodes,
                                                      getLineText(value, lineNumber), lineNumber))

\* ------------------------------------------------------------------------
\* The handler, the page and the timers
\* ------------------------------------------------------------------------

SCROLL_DEBOUNCE_MS == 50

HIGHLIGHT_DEBOUNCE_MS == 100

\* The delay of the setTimeout of _handleEditorClick.
EDITOR_CLICK_DELAY_MS == 10

\* The most timers (run loop timers and timeouts) pending at once.
MaxPending == 2

\* The keys of a keyboard event: one in both lists of navigation keys, one
\* only in the list of _handleEditorKeyDown, one in neither.
Keys == {"ArrowDown", "Enter", "a"}

KeyDownKeys == {"ArrowUp", "ArrowDown", "ArrowLeft", "ArrowRight", "Home", "End",
                "PageUp", "PageDown", "Enter", "Backspace", "Delete"}

KeyUpKeys == {"ArrowUp", "ArrowDown", "ArrowLeft", "ArrowRight", "Home", "End",
              "PageUp", "PageDown"}

\* The id of the style element the handler creates.
StyleEl == 1

VARIABLES
  world,           \* the document open in the composer, an index of Worlds
  isSafari,        \* isSafari() of this browser
  h,               \* the ClickToEditHandler's fields
  listeners,       \* the event types with a listener of the handler attached
  headStyles,      \* the [id^='preview-highlight-'] elements of the document, in order
  styleRule,       \* the selectors of the rules in the handler's style element
  cloneInBody,     \* the hidden textarea clone is in document.body
  selectionStart,  \* textArea.selectionStart
  selectionEnd,    \* textArea.selectionEnd
  scrollTop,       \* previewWrapper.scrollTop
  minHeight,       \* preview.style.minHeight has been set
  timers,          \* the pending timers, in the order their waits began
  destroyCalled,   \* history: destroy() has run
  lastReq,         \* history: the element of the latest highlight request
  obs,             \* history: what the last step did
  probe            \* what a specification of a part on its own keeps: the
                   \* arguments and results of the calls of a method or, for
                   \* two handlers in one document, the second handler's side

vars == <<world, isSafari, h, listeners, headStyles, styleRule, cloneInBody,
          selectionStart, selectionEnd, scrollTop, minHeight, timers,
          destroyCalled, lastReq, obs, probe>>

Value == Worlds[world].value

Nodes == Worlds[world].nodes

\* constructor()
NewHandler ==
  [clickHandler |-> FALSE, scrollHandler |-> FALSE, inputHandler |-> FALSE,
   keyDownHandler |-> FALSE, editorClickHandler |-> FALSE,
   preview |-> FALSE, previewWrapper |-> FALSE, scrollParent |-> NoEl,
   textArea |-> FALSE, activeElementCSSStyleRule |-> FALSE,
   clonedTextArea |-> FALSE, isInitialized |-> FALSE,
   _scrollDebounceTimer |-> 0, _highlightDebounceTimer |-> 0,
   _destroyed |-> FALSE, _lastHighlightedElement |-> NoEl]

\* What a step did: the operation and whether _syncEditorToPreview ran past
\* its guard; for a mousedown, the node clicked and the line resolved for it
\* (NoLine: none); for a call of updateActiveElementCSSStyleRule, the element
\* it was asked to highlight, whether that is the element of the request
\* before, whether the call rewrote the style rule and whether the rule
\* named an element before the rewrite.
Quiet(op, synced) ==
  [op |-> op, synced |-> synced, target |-> NoEl, line |-> NoLine,
   req |-> NoEl, again |-> FALSE, wrote |-> FALSE, replaced |-> FALSE]

Request(op, target, line, element, wrote) ==
  [op |-> op, synced |-> FALSE, target |-> target, line |-> line,
   req |-> element, again |-> element # NoEl /\ element = lastReq,
   wrote |-> wrote, replaced |-> wrote /\ styleRule # {}]

\* No call of findLineByContent on its own.
NoProbe == [lines |-> <<>>, text |-> <<>>, line |-> NoLine, done |-> FALSE]

\* The page before the handler is initialized.
NewPage ==
  /\ h = NewHandler
  /\ listeners = {}
  /\ headStyles = <<>>
  /\ styleRule = {}
  /\ cloneInBody = FALSE
  /\ selectionStart = 0
  /\ selectionEnd = 0
  /\ scrollTop = 0
  /\ minHeight = FALSE
  /\ timers = <<>>
  /\ destroyCalled = FALSE
  /\ lastReq = NoEl
  /\ obs = Quiet("new", FALSE)

Init ==
  /\ world \in DOMAIN Worlds
  /\ isSafari = Worlds[world].safari
  /\ NewPage
  /\ probe = NoProbe

\* ------------------------------------------------------------------------
\* The run loop: debounce(target, method, wait), cancel(timer), setTimeout
\* ------------------------------------------------------------------------

\* A pending timer: its id, what it calls ("scroll": the debounced
\* _syncEditorToPreview, "highlight": a debounced highlight update of node,
\* "click": the timeout of _handleEditorClick) and how long it waits.  The
\* model keeps no clock: it keeps the timers in the order their waits began,
\* which decides the orders in which they can come due (IsDue).
Timer(id, kind, wait, node) == [id |-> id, kind |-> kind, wait |-> wait, node |-> node]

TimerIds(tm) == {tm[i].id : i \in DOMAIN tm}

\* A timer id the run loop has not handed out: ids are opaque, so the model
\* takes the least one that neither a pending timer nor the handler holds.
FreshId(hh, tm) ==
  CHOOSE id \in 1..(Len(tm) + 3) :
    /\ id \notin TimerIds(tm) \cup {hh._scrollDebounceTimer, hh._highlightDebounceTimer}
    /\ \A k \in 1..(id - 1) :
         k \in TimerIds(tm) \cup {hh._scrollDebounceTimer, hh._highlightDebounceTimer}

\* cancel(timer)
Cancel(tm, id) ==
  LET Keep(t) == t.id # id \/ t.kind = "click"
  IN  SelectSeq(tm, Keep)

\* A debounce that never finds the pending timer of _syncEditorToPreview (as
\* it would with a method bound anew at every call) and schedules another.
DebounceScrollAnew(hh, tm) ==
  LET id == FreshId(hh, tm)
  IN  <<Append(tm, Timer(id, "scroll", SCROLL_DEBOUNCE_MS, NoEl)), id>>

\* debounce(this, this._syncEditorToPreview, SCROLL_DEBOUNCE_MS): the run
\* loop finds the pending timer of the same target and method and starts its
\* wait again, or schedules a new one.  <<timers, timer id>>.
DebounceScroll(hh, tm) ==
  IF \E i \in DOMAIN tm : tm[i].kind = "scroll"
    THEN LET i == CHOOSE k \in DOMAIN tm : tm[k].kind = "scroll"
             Others(t) == t.kind # "scroll"
         IN  <<Append(SelectSeq(tm, Others), tm[i]), tm[i].id>>
    ELSE LET id == FreshId(hh, tm)
         IN  <<Append(tm, Timer(id, "scroll", SCROLL_DEBOUNCE_MS, NoEl)), id>>

\* debounce(this, () => this.updateActiveElementCSSStyleRule(previewElement),
\* HIGHLIGHT_DEBOUNCE_MS): the arrow function is a new method at every call,
\* so the run loop finds no pending timer of it and schedules a new one.
DebounceHighlight(hh, tm, previewElement) ==
  LET id == FreshId(hh, tm)
  IN  <<Append(tm, Timer(id, "highlight", HIGHLIGHT_DEBOUNCE_MS, previewElement)), id>>

\* ------------------------------------------------------------------------
\* SCROLL & HIGHLIGHT HELPERS
\* ------------------------------------------------------------------------

\* The array newlines of scrollTextAreaToCorrectPosition: -1, then the
\* 0-based offset of every "\n" of the value.
Newlines(value) ==
  LET IsBreak(i) == value[i] = "\n"
      at == SelectSeq([i \in 1..Len(value) |-> i], IsBreak)
  IN  <<-1>> \o [k \in 1..Len(at) |-> at[k] - 1]

\* An offset as the selection setters take it: NaN (here -1) becomes 0 and
\* an offset past the end becomes the length.
ClampOffset(value, v) == IF v < 0 THEN 0 ELSE Min2(v, Len(value))

\* textArea.selectionStart = v, on the selection <<start, end>>.
SetSelectionStart(value, sel, v) ==
  LET start == ClampOffset(value, v)
  IN  <<start, Max2(sel[2], start)>>

\* textArea.selectionEnd = v
SetSelectionEnd(value, sel, v) ==
  LET end == ClampOffset(value, v)
  IN  <<Min2(sel[1], end), end>>

\* scrollTextAreaToCorrectPosition with selStart = newlines[lineIndex], the
\* offset of the line break itself.
scrollTextAreaToLineBreak(value, sel, lineIndex, safari) ==
  LET newlines == Newlines(value)
      selStart == IF lineIndex < Len(newlines) THEN newlines[lineIndex + 1] ELSE -1
      selEnd == IF lineIndex + 1 < Len(newlines) /\ newlines[lineIndex + 2] # 0
                  THEN newlines[lineIndex + 2]
                  ELSE Len(value)
      settled == IF safari THEN sel
                 ELSE SetSelectionStart(value, SetSelectionEnd(value, sel, selStart), selStart)
  IN  SetSelectionEnd(value, SetSelectionStart(value, settled, selStart), selEnd)

\* scrollTextAreaToCorrectPosition(lineIndex), with this.textArea set and a
\* line index that is not null: the selection it leaves, <<start, end>>.
scrollTextAreaToCorrectPosition(value, sel, lineIndex, safari) ==
  LET newlines == Newlines(value)
      selStart == IF lineIndex < Len(newlines) THEN newlines[lineIndex + 1] + 1 ELSE -1
      selEnd == IF lineIndex + 1 < Len(newlines) /\ newlines[lineIndex + 2] # 0
                  THEN newlines[lineIndex + 2]
                  ELSE Len(value)
      settled == IF safari THEN sel
                 ELSE SetSelectionStart(value, SetSelectionEnd(value, sel, selStart), selStart)
  IN  SetSelectionEnd(value, SetSelectionStart(value, settled, selStart), selEnd)

\* One step of the selector of getUniqueCSSSelector: the tag of el and, when
\* el has siblings of its tag, its 1-based place among them (0: none).
SelectorStep(nodes, el) ==
  LET siblings == {k \in NodeIds(nodes) :
                     nodes[k].parent = nodes[el].parent /\ nodes[k].tag = nodes[el].tag}
      sibIndex == Cardinality({k \in siblings : k < el})
  IN  [tag |-> nodes[el].tag,
       nth |-> IF Cardinality(siblings) > 1 THEN sibIndex + 1 ELSE 0]

\* getUniqueCSSSelector(el): the steps from the preview wrapper down to el
\* (the steps above the wrapper are the same for every node of the preview;
\* the nodes of the preview carry no id).
RECURSIVE getUniqueCSSSelector(_, _)
getUniqueCSSSelector(nodes, el) ==
  IF el < 1 THEN <<>>
  ELSE Append(getUniqueCSSSelector(nodes, nodes[el].parent), SelectorStep(nodes, el))

\* The element n matches the selector: tag and :nth-of-type of the last
\* step, and its parent matches the steps before (the > combinator).
RECURSIVE MatchesSelector(_, _, _)
MatchesSelector(nodes, n, selector) ==
  IF selector = <<>> THEN n = Wrapper
  ELSE LET step == selector[Len(selector)]
       IN  /\ n >= 1
           /\ nodes[n].tag = step.tag
           /\ step.nth = 0 \/ SelectorStep(nodes, n).nth = step.nth
                           \/ (SelectorStep(nodes, n).nth = 0 /\ step.nth = 1)
           /\ MatchesSelector(nodes, nodes[n].parent, SubSeq(selector, 1, Len(selector) - 1))

\* The nodes of the preview that the rules of the style element highlight.
Highlighted(nodes, rule) ==
  {n \in NodeIds(nodes) : \E selector \in rule : MatchesSelector(nodes, n, selector)}

\* Keep only the last of the highlight style elements: the loop that
\* removes highlightElements[0 .. length - 2] from the document.
RemoveDuplicateStyles(styles) ==
  IF Len(styles) <= 1 THEN styles ELSE <<styles[Len(styles)]>>

\* updateActiveElementCSSStyleRule without its first guard on the handler:
\* it returns early only for a missing element.
updateRuleUnguarded(hh, nodes, styles, rule, previewElement) ==
  IF previewElement = NoEl \/ hh._lastHighlightedElement = previewElement
    THEN [h |-> hh, headStyles |-> styles, styleRule |-> rule, wrote |-> FALSE]
    ELSE [h |-> [hh EXCEPT !._lastHighlightedElement = previewElement],
          headStyles |-> RemoveDuplicateStyles(styles),
          styleRule |-> {getUniqueCSSSelector(nodes, previewElement)},
          wrote |-> TRUE]

\* updateActiveElementCSSStyleRule without the "Skip if same element" return.
updateRuleWithoutSkip(hh, nodes, styles, rule, previewElement) ==
  IF ~hh.activeElementCSSStyleRule \/ hh._destroyed \/ previewElement = NoEl
    THEN [h |-> hh, headStyles |-> styles, styleRule |-> rule, wrote |-> FALSE]
    ELSE [h |-> [hh EXCEPT !._lastHighlightedElement = previewElement],
          headStyles |-> RemoveDuplicateStyles(styles),
          styleRule |-> {getUniqueCSSSelector(nodes, previewElement)},
          wrote |-> TRUE]

\* updateActiveElementCSSStyleRule appending to the rule's text (innerHTML +=)
\* instead of assigning it.
updateRuleAppending(hh, nodes, styles, rule, previewElement) ==
  IF ~hh.activeElementCSSStyleRule \/ hh._destroyed \/ previewElement = NoEl
    THEN [h |-> hh, headStyles |-> styles, styleRule |-> rule, wrote |-> FALSE]
  ELSE IF hh._lastHighlightedElement = previewElement
    THEN [h |-> hh, headStyles |-> styles, styleRule |-> rule, wrote |-> FALSE]
  ELSE [h |-> [hh EXCEPT !._lastHighlightedElement = previewElement],
        headStyles |-> RemoveDuplicateStyles(styles),
        styleRule |-> rule \cup {getUniqueCSSSelector(nodes, previewElement)},
        wrote |-> TRUE]

\* updateActiveElementCSSStyleRule(previewElement): the handler, the style
\* elements of the document and the handler's rule after the call, and
\* whether the rule was rewritten.
updateActiveElementCSSStyleRule(hh, nodes, styles, rule, previewElement) ==
  IF ~hh.activeElementCSSStyleRule \/ hh._destroyed \/ previewElement = NoEl
    THEN [h |-> hh, headStyles |-> styles, styleRule |-> rule, wrote |-> FALSE]
  ELSE IF hh._lastHighlightedElement = previewElement
    THEN [h |-> hh, headStyles |-> styles, styleRule |-> rule, wrote |-> FALSE]
  ELSE [h |-> [hh EXCEPT !._lastHighlightedElement = previewElement],
        headStyles |-> RemoveDuplicateStyles(styles),
        styleRule |-> {getUniqueCSSSelector(nodes, previewElement)},
        wrote |-> TRUE]

\* elem.offsetTop and elem.offsetParent, for a node, the wrapper and the
\* scroll parent (whose own offsetParent is outside the model: null).
OffsetTopOf(nodes, elem) ==
  IF elem >= 1 THEN nodes[elem].offsetTop
  ELSE IF elem = Wrapper THEN WrapperOffsetTop
  ELSE 0

OffsetParentOf(nodes, elem) ==
  IF elem >= 1 THEN nodes[elem].offsetParent
  ELSE IF elem = Wrapper THEN ScrollParentEl
  ELSE NoEl

\* getOffsetTopUntil(elem, parent)
RECURSIVE getOffsetTopUntil(_, _, _)
getOffsetTopUntil(nodes, elem, parent) ==
  IF elem = NoEl \/ parent = NoEl THEN 0
  ELSE IF OffsetParentOf(nodes, elem) = parent THEN OffsetTopOf(nodes, elem)
  ELSE OffsetTopOf(nodes, elem) + getOffsetTopUntil(nodes, OffsetParentOf(nodes, elem), parent)

\* scrollPreviewToElement(element), with this.previewWrapper set: the top
\* that previewWrapper.scrollTo is given.
scrollPreviewToElement(hh, nodes, element) ==
  LET offset == getOffsetTopUntil(nodes, element, hh.scrollParent)
      targetScroll == offset - (WrapperClientHeight \div 2)
  IN  Max2(0, targetScroll)

\* ------------------------------------------------------------------------
\* PREVIEW -> EDITOR
\* ------------------------------------------------------------------------

\* A rule of _handlePreviewClick that matched returns; otherwise the next
\* rule is tried.
FirstMatch(match, next) == IF match # NoMatch THEN match ELSE next

\* videoMatch !== null: the line, and target.closest("video") || target.
VideoMatch(nodes, target, videoMatch) ==
  IF videoMatch = NoLine THEN NoMatch
  ELSE [line |-> videoMatch, element |-> OrElse(Closest(nodes, target, {"video"}), target)]

\* lineNumber !== null: the line, and findElementByLineNumber(lineNumber).
LineNumberMatch(nodes, lineNumber) ==
  IF lineNumber = NoLine THEN NoMatch
  ELSE [line |-> lineNumber, element |-> findElementByLineNumber(nodes, lineNumber)]

\* matchedLine !== null: the line, and the clicked node.
ContentMatch(target, matchedLine) ==
  IF matchedLine = NoLine THEN NoMatch
  ELSE [line |-> matchedLine, element |-> target]

\* What _handlePreviewClick resolves for a mousedown on target: the line it
\* passes to scrollTextAreaToCorrectPosition (NoLine: it passes none) and the
\* element it passes to updateActiveElementCSSStyleRule (NoEl: none).
resolveClick(value, nodes, target) ==
  FirstMatch(handleDetailsClick(value, nodes, target),
    FirstMatch(VideoMatch(nodes, target, handleVideoClick(value, nodes, target)),
      FirstMatch(LineNumberMatch(nodes, getLineNumber(nodes, target)),
                 ContentMatch(target, findLineByContent(value, nodes[target].text)))))

\* The two resolutions and the caret offsets of every document, computed once:
\* each is a function of the textarea's value, the preview tree and its argument.
ClickResolution ==
  [w \in DOMAIN Worlds |->
     [target \in NodeIds(Worlds[w].nodes) |->
        resolveClick(Worlds[w].value, Worlds[w].nodes, target)]]

PreviewResolution ==
  [w \in DOMAIN Worlds |->
     [cursorPosition \in 0..Len(Worlds[w].value) |->
        resolvePreviewElement(Worlds[w].value, Worlds[w].nodes, cursorPosition)]]

\* The offsets the user puts the caret at: the start of every line and the
\* end of the text.
CaretOffsetsOf ==
  [w \in DOMAIN Worlds |->
     {Newlines(Worlds[w].value)[k] + 1 : k \in DOMAIN Newlines(Worlds[w].value)}
       \cup {Len(Worlds[w].value)}]

\* ------------------------------------------------------------------------
\* EDITOR -> PREVIEW
\* ------------------------------------------------------------------------

\* _debouncedScrollPreview(): the handler and the timers after the call.
debouncedScrollPreview(hh, tm) ==
  IF hh._destroyed THEN [h |-> hh, timers |-> tm]
  ELSE LET d == DebounceScroll(hh, tm)
       IN  [h |-> [hh EXCEPT !._scrollDebounceTimer = d[2]], timers |-> d[1]]

\* SyncTo without its if (previewElement): the highlight is debounced for
\* whatever the rules found.
SyncToUnchecked(hh, tm, top, minH, nodes, previewElement) ==
  LET d == DebounceHighlight(hh, tm, previewElement)
  IN  [h |-> [hh EXCEPT !._highlightDebounceTimer = d[2]],
       timers |-> d[1],
       scrollTop |-> IF previewElement # NoEl
                       THEN scrollPreviewToElement(hh, nodes, previewElement)
                       ELSE top,
       minHeight |-> minH \/ hh.preview,
       synced |-> TRUE]

\* _syncEditorToPreview() past its guard, with the element its rules found:
\* if (previewElement) { debounce the highlight; scrollPreviewToElement }.
SyncTo(hh, tm, top, minH, nodes, previewElement) ==
  IF previewElement # NoEl
    THEN LET d == DebounceHighlight(hh, tm, previewElement)
         IN  [h |-> [hh EXCEPT !._highlightDebounceTimer = d[2]],
              timers |-> d[1],
              scrollTop |-> scrollPreviewToElement(hh, nodes, previewElement),
              minHeight |-> minH \/ hh.preview,
              synced |-> TRUE]
    ELSE [h |-> hh, timers |-> tm, scrollTop |-> top,
          minHeight |-> minH \/ hh.preview, synced |-> TRUE]

\* _syncEditorToPreview without the guard of its first statement.
syncEditorToPreviewUnguarded(hh, tm, top, minH, w, cursorPosition) ==
  SyncTo(hh, tm, top, minH, Worlds[w].nodes, PreviewResolution[w][cursorPosition])

\* _syncEditorToPreview(): the handler, the timers, the preview's scroll
\* position and min-height after the call; synced tells that the call went
\* past its guard and resolved the caret's line.
syncEditorToPreview(hh, tm, top, minH, w, cursorPosition) ==
  IF hh._destroyed \/ ~hh.textArea \/ ~hh.previewWrapper
    THEN [h |-> hh, timers |-> tm, scrollTop |-> top, minHeight |-> minH, synced |-> FALSE]
    ELSE SyncTo(hh, tm, top, minH, Worlds[w].nodes, PreviewResolution[w][cursorPosition])

\* ------------------------------------------------------------------------
\* Set-up and CLEANUP
\* ------------------------------------------------------------------------

EditorEvents == {"mouseup", "click", "input", "keydown", "keyup"}

\* initialize without the _destroyed half of its first guard.
initializeDestroyed(hh, styles, ls, proseMirror) ==
  IF hh.isInitialized \/ proseMirror
    THEN [h |-> hh, headStyles |-> styles, listeners |-> ls]
    ELSE [h |-> [hh EXCEPT !.textArea = TRUE, !.previewWrapper = TRUE,
                           !.scrollParent = ScrollParentEl, !.preview = TRUE,
                           !.isInitialized = TRUE, !.activeElementCSSStyleRule = TRUE,
                           !.clickHandler = TRUE, !.scrollHandler = TRUE,
                           !.inputHandler = TRUE, !.keyDownHandler = TRUE,
                           !.editorClickHandler = TRUE],
          headStyles |-> Append(styles, StyleEl),
          listeners |-> ls \cup {"mousedown"} \cup {"mouseup", "click", "input", "keydown", "keyup"}]

\* initialize without the return for a rich editor in the page.
initializeOverRichEditor(hh, styles, ls, proseMirror) ==
  IF hh.isInitialized \/ hh._destroyed
    THEN [h |-> hh, headStyles |-> styles, listeners |-> ls]
    ELSE [h |-> [hh EXCEPT !.textArea = TRUE, !.previewWrapper = TRUE,
                           !.scrollParent = ScrollParentEl, !.preview = TRUE,
                           !.isInitialized = TRUE, !.activeElementCSSStyleRule = TRUE,
                           !.clickHandler = TRUE, !.scrollHandler = TRUE,
                           !.inputHandler = TRUE, !.keyDownHandler = TRUE,
                           !.editorClickHandler = TRUE],
          headStyles |-> Append(styles, StyleEl),
          listeners |-> ls \cup {"mousedown"} \cup {"mouseup", "click", "input", "keydown", "keyup"}]

\* initialize(textArea, previewWrapper), called with both elements, the
\* wrapper holding its .d-editor-preview element: proseMirror tells that a
\* rich editor is in the page.  The handler, the style elements of the
\* document and the attached listeners after the call.
initialize(hh, styles, ls, proseMirror) ==
  IF hh.isInitialized \/ hh._destroyed \/ proseMirror
    THEN [h |-> hh, headStyles |-> styles, listeners |-> ls]
    ELSE [h |-> [hh EXCEPT !.textArea = TRUE, !.previewWrapper = TRUE,
                           !.scrollParent = ScrollParentEl, !.preview = TRUE,
                           !.isInitialized = TRUE, !.activeElementCSSStyleRule = TRUE,
                           !.clickHandler = TRUE, !.scrollHandler = TRUE,
                           !.inputHandler = TRUE, !.keyDownHandler = TRUE,
                           !.editorClickHandler = TRUE],
          headStyles |-> Append(styles, StyleEl),
          listeners |-> ls \cup {"mousedown"} \cup EditorEvents]

\* The listeners destroy() removes: each one whose bound function the
\* handler still holds; the keyup listener was bound inline and is not held.
RemovedListeners(hh) ==
  (IF hh.previewWrapper /\ hh.clickHandler THEN {"mousedown"} ELSE {})
    \cup (IF hh.textArea /\ hh.scrollHandler THEN {"mouseup"} ELSE {})
    \cup (IF hh.textArea /\ hh.editorClickHandler THEN {"click"} ELSE {})
    \cup (IF hh.textArea /\ hh.inputHandler THEN {"input"} ELSE {})
    \cup (IF hh.textArea /\ hh.keyDownHandler THEN {"keydown"} ELSE {})

\* destroy(): the handler, the timers, the listeners, the style elements
\* of the document and the clone's presence after the call.
destroy(hh, tm, ls, styles, clone) ==
  LET NotOwn(e) == e # StyleEl
      t1 == IF hh._scrollDebounceTimer # 0 THEN Cancel(tm, hh._scrollDebounceTimer) ELSE tm
      t2 == IF hh._highlightDebounceTimer # 0 THEN Cancel(t1, hh._highlightDebounceTimer) ELSE t1
  IN  [h |-> [NewHandler EXCEPT !._destroyed = TRUE,
                                !._scrollDebounceTimer = hh._scrollDebounceTimer,
                                !._highlightDebounceTimer = hh._highlightDebounceTimer],
       timers |-> t2,
       listeners |-> ls \ RemovedListeners(hh),
       headStyles |-> IF hh.activeElementCSSStyleRule THEN SelectSeq(styles, NotOwn) ELSE styles,
       cloneInBody |-> IF hh.clonedTextArea THEN FALSE ELSE clone]

\* ------------------------------------------------------------------------
\* The steps: calls of the handler's methods, events, the clock
\* ------------------------------------------------------------------------

\* A step that calls updateActiveElementCSSStyleRule(element) at most once
\* records the request.
NoteRequest(element) ==
  IF element = NoEl
    THEN UNCHANGED lastReq
    ELSE lastReq' = element

\* handler.initialize(textArea, previewWrapper)
Initialize(proseMirror) ==
  LET r == initialize(h, headStyles, listeners, proseMirror)
  IN  /\ h' = r.h
      /\ headStyles' = r.headStyles
      /\ listeners' = r.listeners
      /\ obs' = Quiet("initialize", FALSE)
      /\ UNCHANGED <<probe, world, isSafari, styleRule, cloneInBody, selectionStart, selectionEnd,
                     scrollTop, minHeight, timers, destroyCalled, lastReq>>

\* handler.destroy()
Destroy ==
  LET r == destroy(h, timers, listeners, headStyles, cloneInBody)
  IN  /\ h' = r.h
      /\ timers' = r.timers
      /\ listeners' = r.listeners
      /\ headStyles' = r.headStyles
      /\ cloneInBody' = r.cloneInBody
      /\ destroyCalled' = TRUE
      /\ obs' = Quiet("destroy", FALSE)
      /\ UNCHANGED <<probe, world, isSafari, styleRule, selectionStart, selectionEnd,
                     scrollTop, minHeight, lastReq>>

\* _handlePreviewClick with the match m of its rules: the selection is put
\* on the line and the highlight is asked for the element.
ClickTo(target, m) ==
  LET u == updateActiveElementCSSStyleRule(h, Nodes, headStyles, styleRule, m.element)
      sel == scrollTextAreaToCorrectPosition(Value, <<selectionStart, selectionEnd>>,
                                             m.line, isSafari)
  IN  /\ IF m.line # NoLine
           THEN /\ selectionStart' = sel[1]
                /\ selectionEnd' = sel[2]
                /\ cloneInBody' = (cloneInBody \/ isSafari)
                /\ h' = [u.h EXCEPT !.clonedTextArea = @ \/ isSafari]
           ELSE /\ UNCHANGED <<selectionStart, selectionEnd, cloneInBody>>
                /\ h' = u.h
      /\ headStyles' = u.headStyles
      /\ styleRule' = u.styleRule
      /\ NoteRequest(m.element)
      /\ obs' = Request("previewClick", target, m.line, m.element, u.wrote)
      /\ UNCHANGED <<probe, world, isSafari, listeners, scrollTop, minHeight, timers, destroyCalled>>

\* mousedown on a node of the preview: _handlePreviewClick(event)
PreviewClick(target) ==
  /\ "mousedown" \in listeners
  /\ ClickTo(target, ClickResolution[world][target])

\* The user puts the caret somewhere else in the textarea.
MoveCaret(offset) ==
  /\ offset \in CaretOffsetsOf[world]
  /\ <<selectionStart, selectionEnd>> # <<offset, offset>>
  /\ selectionStart' = offset
  /\ selectionEnd' = offset
  /\ obs' = Quiet("moveCaret", FALSE)
  /\ UNCHANGED <<probe, world, isSafari, h, listeners, headStyles, styleRule, cloneInBody,
                 scrollTop, minHeight, timers, destroyCalled, lastReq>>

\* A step that only calls _debouncedScrollPreview().
DebouncedStep(op) ==
  LET r == debouncedScrollPreview(h, timers)
  IN  /\ Len(r.timers) <= MaxPending
      /\ h' = r.h
      /\ timers' = r.timers
      /\ obs' = Quiet(op, FALSE)
      /\ UNCHANGED <<probe, world, isSafari, listeners, headStyles, styleRule, cloneInBody,
                     selectionStart, selectionEnd, scrollTop, minHeight,
                     destroyCalled, lastReq>>

\* The state after a call of _syncEditorToPreview() that returned r.
SyncedTo(op, r) ==
  /\ Len(r.timers) <= MaxPending
  /\ h' = r.h
  /\ timers' = r.timers
  /\ scrollTop' = r.scrollTop
  /\ minHeight' = r.minHeight
  /\ obs' = Quiet(op, r.synced)
  /\ UNCHANGED <<probe, world, isSafari, listeners, headStyles, styleRule, cloneInBody,
                 selectionStart, selectionEnd, destroyCalled, lastReq>>

\* A step that only calls _syncEditorToPreview(), with the timers tm pending.
SyncStep(op, tm) ==
  SyncedTo(op, syncEditorToPreview(h, tm, scrollTop, minHeight, world, selectionStart))

\* A step of a handler that does nothing for this event.
IdleStep(op) ==
  /\ obs' = Quiet(op, FALSE)
  /\ UNCHANGED <<probe, world, isSafari, h, listeners, headStyles, styleRule, cloneInBody,
                 selectionStart, selectionEnd, scrollTop, minHeight, timers,
                 destroyCalled, lastReq>>

\* mouseup on the textarea: _handleEditorScroll()
EditorMouseUp == "mouseup" \in listeners /\ DebouncedStep("mouseup")

\* input on the textarea: _handleEditorInput()
EditorInput == "input" \in listeners /\ DebouncedStep("input")

\* keydown on the textarea: _handleEditorKeyDown(event)
EditorKeyDown(key) ==
  /\ "keydown" \in listeners
  /\ IF key \in KeyDownKeys THEN DebouncedStep("keydown") ELSE IdleStep("keydown")

\* keyup on the textarea: _handleEditorKeyUp(event)
EditorKeyUp(key) ==
  /\ "keyup" \in listeners
  /\ IF key \in KeyUpKeys THEN SyncStep("keyup", timers) ELSE IdleStep("keyup")

\* click on the textarea: _handleEditorClick(event)
EditorClick ==
  /\ "click" \in listeners
  /\ Len(timers) < MaxPending
  /\ timers' = Append(timers, Timer(0, "click", EDITOR_CLICK_DELAY_MS, NoEl))
  /\ obs' = Quiet("click", FALSE)
  /\ UNCHANGED <<probe, world, isSafari, h, listeners, headStyles, styleRule, cloneInBody,
                 selectionStart, selectionEnd, scrollTop, minHeight,
                 destroyCalled, lastReq>>

\* The timers without the one at position i.
WithoutTimer(tm, i) == SubSeq(tm, 1, i - 1) \o SubSeq(tm, i + 1, Len(tm))

\* The timer at position i can be the next to come due: no timer whose wait
\* began earlier and is no longer than its own is still pending.
IsDue(tm, i) == \A j \in 1..(i - 1) : tm[j].wait > tm[i].wait

\* The run loop calls the debounced _syncEditorToPreview.
FireScroll(i) ==
  /\ i \in DOMAIN timers /\ timers[i].kind = "scroll" /\ IsDue(timers, i)
  /\ SyncStep("fireScroll", WithoutTimer(timers, i))

\* The browser calls the timeout of _handleEditorClick.
FireClick(i) ==
  /\ i \in DOMAIN timers /\ timers[i].kind = "click" /\ IsDue(timers, i)
  /\ SyncStep("fireClick", WithoutTimer(timers, i))

\* The run loop calls a debounced () => updateActiveElementCSSStyleRule(previewElement).
FireHighlight(i) ==
  /\ i \in DOMAIN timers /\ timers[i].kind = "highlight" /\ IsDue(timers, i)
  /\ LET u == updateActiveElementCSSStyleRule(h, Nodes, headStyles, styleRule, timers[i].node)
     IN  /\ h' = u.h
         /\ headStyles' = u.headStyles
         /\ styleRule' = u.styleRule
         /\ NoteRequest(timers[i].node)
         /\ obs' = Request("fireHighlight", NoEl, NoLine, timers[i].node, u.wrote)
  /\ timers' = WithoutTimer(timers, i)
  /\ UNCHANGED <<probe, world, isSafari, listeners, cloneInBody, selectionStart, selectionEnd,
                 scrollTop, minHeight, destroyCalled>>

Next ==
  \/ \E proseMirror \in BOOLEAN : Initialize(proseMirror)
  \/ Destroy
  \/ \E target \in NodeIds(Nodes) : PreviewClick(target)
  \/ \E offset \in 0..Len(Value) : MoveCaret(offset)
  \/ EditorMouseUp
  \/ EditorInput
  \/ \E key \in Keys : EditorKeyDown(key)
  \/ \E key \in Keys : EditorKeyUp(key)
  \/ EditorClick
  \/ \E i \in 1..MaxPending : FireScroll(i)
  \/ \E i \in 1..MaxPending : FireClick(i)
  \/ \E i \in 1..MaxPending : FireHighlight(i)

Spec == Init /\ [][Next]_vars

\* ------------------------------------------------------------------------
\* findLineByContent on its own, over bounded textareas and node texts
\* ------------------------------------------------------------------------

\* The most lines a textarea of these calls holds.
MaxLines == 3

\* The lines the textareas are made of: "", "cc", "bb cc", "abc def",
\* "abc xyz q" and "[b]cc[/b]".
LineTexts ==
  {<<>>,
   <<"c","c">>,
   <<"b","b"," ","c","c">>,
   <<"a","b","c"," ","d","e","f">>,
   <<"a","b","c"," ","x","y","z"," ","q">>,
   <<"[","b","]","c","c","[","/","b","]">>}

\* The textContent of the clicked nodes: "cc", "abc xyz", "def abc", "=."
\* and " ".
NodeTexts ==
  {<<"c","c">>,
   <<"a","b","c"," ","x","y","z">>,
   <<"d","e","f"," ","a","b","c">>,
   <<"=",".">>,
   <<" ">>}

\* The textareas, as their lines: value.split("\n") of a value always holds
\* one line at least.
Buffers == UNION {[1..n -> LineTexts] : n \in 1..MaxLines}

\* lines.join("\n"): the value of the textarea that holds the lines.
RECURSIVE JoinLines(_)
JoinLines(lines) ==
  IF Len(lines) = 1 THEN lines[1]
  ELSE lines[1] \o <<"\n">> \o JoinLines(Tail(lines))

InitContent ==
  /\ world = 1
  /\ isSafari = Worlds[world].safari
  /\ NewPage
  /\ probe \in [lines : Buffers, text : NodeTexts, line : {NoLine}, done : {FALSE}]

\* this.findLineByContent(target), for a target with the probe's text and a
\* textarea holding the probe's lines.
FindLine ==
  /\ ~probe.done
  /\ probe' = [probe EXCEPT !.line = findLineByContent(JoinLines(probe.lines), probe.text),
                            !.done = TRUE]
  /\ UNCHANGED <<world, isSafari, h, listeners, headStyles, styleRule, cloneInBody,
                 selectionStart, selectionEnd, scrollTop, minHeight, timers,
                 destroyCalled, lastReq, obs>>

NextContent == FindLine

SpecContent == InitContent /\ [][NextContent]_vars

\* ------------------------------------------------------------------------
\* findElementByLineNumber on its own, over bounded previews and lines
\* ------------------------------------------------------------------------

\* The variables of the page and the handler, which a call of one method
\* on its own leaves alone.
pageVars == <<world, isSafari, h, listeners, headStyles, styleRule, cloneInBody,
              selectionStart, selectionEnd, scrollTop, minHeight, timers,
              destroyCalled, lastReq, obs>>

\* The most nodes of a preview of these calls, and the highest data-ln.
MaxNodes == 3

MaxLn == 2

\* The data-ln attributes of a preview's nodes, in document order.
AnnotationLists == UNION {[1..n -> {NoLn} \cup 0..MaxLn] : n \in 0..MaxNodes}

\* The preview whose nodes carry the attributes lns: paragraphs of the wrapper.
AnnotatedNodes(lns) ==
  [n \in 1..Len(lns) |-> Node("p", Wrapper, lns[n], <<>>, {}, 0, Wrapper)]

InitAnnotation ==
  /\ world = 1
  /\ isSafari = Worlds[world].safari
  /\ NewPage
  /\ probe \in [lns : AnnotationLists, line : 0..(MaxLn + 1), element : {NoEl}, done : {FALSE}]

\* this.findElementByLineNumber(line), for the probe's preview and line.
FindElement ==
  /\ ~probe.done
  /\ probe' = [probe EXCEPT
                 !.element = findElementByLineNumber(AnnotatedNodes(probe.lns), probe.line),
                 !.done = TRUE]
  /\ UNCHANGED pageVars

NextAnnotation == FindElement

SpecAnnotation == InitAnnotation /\ [][NextAnnotation]_vars

\* ------------------------------------------------------------------------
\* The resolution of _syncEditorToPreview on its own, call after call, over
\* bounded textareas and a few previews
\* ------------------------------------------------------------------------

\* The lines the textareas of these calls are made of: "", "cc", "bb cc",
\* "[img]aa[/img]", ":x:" and [details="a"].
MoveLineTexts ==
  {<<>>,
   <<"c","c">>,
   <<"b","b"," ","c","c">>,
   <<"[","i","m","g","]","a","a","[","/","i","m","g","]">>,
   <<":","x",":">>,
   <<"[","d","e","t","a","i","l","s","=","\"","a","\"","]">>}

\* The most lines a textarea of these calls holds.
MaxMoveLines == 2

\* A collapsible section inside another of the same title, each annotated
\* with the line of its opening tag.
PreviewSections ==
  <<Node("details", Wrapper, 0, <<"a","a">>, {}, 0, Wrapper),
    Node("summary", 1, NoLn, <<"a">>, {}, 0, 1),
    Node("details", 1, 1, <<"a">>, {}, 10, 1),
    Node("summary", 3, NoLn, <<"a">>, {}, 0, 3)>>

\* Paragraphs, the first annotated with line 1, the others not annotated.
PreviewParagraphs ==
  <<Node("p", Wrapper, 1, <<"b","b"," ","c","c">>, {}, 0, Wrapper),
    Node("p", Wrapper, NoLn, <<"b","b"," ","c","c">>, {}, 20, Wrapper),
    Node("p", Wrapper, NoLn, <<"c","c">>, {}, 40, Wrapper),
    Node("p", Wrapper, NoLn, <<"c","c">>, {}, 60, Wrapper)>>

\* A paragraph of text and a paragraph that holds an emoji image only; no
\* annotations, as for BBCode.
PreviewImage ==
  <<Node("p", Wrapper, NoLn, <<"a","a">>, {}, 0, Wrapper),
    Node("p", Wrapper, NoLn, <<>>, {}, 20, Wrapper),
    Node("img", 2, NoLn, <<>>, {".emoji"}, 0, 2)>>

\* The previews of these calls.  The preview is rendered from the textarea
\* after a delay of its own, so a call can find it next to any text.
Previews == <<PreviewSections, PreviewParagraphs, PreviewImage>>

MoveBuffers == UNION {[1..n -> MoveLineTexts] : n \in 1..MaxMoveLines}

\* No call so far.
NoCall == [line |-> NoLine, element |-> NoEl]

InitMove ==
  /\ world = 1
  /\ isSafari = Worlds[world].safari
  /\ NewPage
  /\ probe \in [lines : MoveBuffers, tree : DOMAIN Previews, lastIndex : {0},
                 calls : {0}, line : {NoLine}, details : {NotRun},
                 annotation : {NotRun}, content : {NotRun}, special : {NotRun},
                 element : {NoEl}, before : {NoCall}]

\* The probe after a call that resolved the caret's line as r tells.
Moved(line, r) ==
  [probe EXCEPT !.lastIndex = r.lastIndex,
                !.calls = IF @ < 2 THEN @ + 1 ELSE @,
                !.line = line,
                !.details = r.details,
                !.annotation = r.annotation,
                !.content = r.content,
                !.special = r.special,
                !.element = r.element,
                !.before = IF probe.calls = 0 THEN NoCall
                           ELSE [line |-> probe.line, element |-> probe.element]]

\* _syncEditorToPreview() with the caret on a line of the textarea, up to
\* the element it ends with.
Move(line) ==
  /\ line \in LineIndices(probe.lines)
  /\ probe' = Moved(line, syncResolution(JoinLines(probe.lines), Previews[probe.tree],
                                         line, probe.lastIndex))
  /\ UNCHANGED pageVars

NextMove == \E line \in 0..(MaxMoveLines - 1) : Move(line)

SpecMove == InitMove /\ [][NextMove]_vars

\* ------------------------------------------------------------------------
\* normalizeText on its own, applied to a text and then to its own result
\* ------------------------------------------------------------------------

\* The longest text given to normalizeText.
MaxTextLen == 5

\* The characters of those texts: a lower-case and an upper-case letter,
\* white space, a character the second replace removes, and the underscore.
TextChars == {"a", "B", " ", ".", "_"}

Texts == UNION {[1..n -> TextChars] : n \in 0..MaxTextLen}

InitNormalize ==
  /\ world = 1
  /\ isSafari = Worlds[world].safari
  /\ NewPage
  /\ probe \in [text : Texts, once : {<<>>}, twice : {<<>>}, calls : {0}]

\* this.normalizeText(text)
Normalize ==
  /\ probe.calls = 0
  /\ probe' = [probe EXCEPT !.once = normalizeText(probe.text), !.calls = 1]
  /\ UNCHANGED pageVars

\* this.normalizeText(this.normalizeText(text))
NormalizeAgain ==
  /\ probe.calls = 1
  /\ probe' = [probe EXCEPT !.twice = normalizeText(probe.once), !.calls = 2]
  /\ UNCHANGED pageVars

NextNormalize == Normalize \/ NormalizeAgain

SpecNormalize == InitNormalize /\ [][NextNormalize]_vars

\* ------------------------------------------------------------------------
\* stripAllSyntax and normalizeText on a text wrapped in [b] and [/b]
\* ------------------------------------------------------------------------

\* The longest text that is wrapped.
MaxWrapLen == 4

\* The characters of those texts: letters, a space, and the characters of
\* the bracket tags and the table rows that stripAllSyntax rewrites.
WrapChars == {"a", "B", " ", "[", "]", "/", "=", "|"}

WrapTexts == UNION {[1..n -> WrapChars] : n \in 0..MaxWrapLen}

\* "[b]" + text + "[/b]"
Wrapped(text) == <<"[", "b", "]">> \o text \o <<"[", "/", "b", "]">>

InitWrap ==
  /\ world = 1
  /\ isSafari = Worlds[world].safari
  /\ NewPage
  /\ probe \in [text : WrapTexts, wrapped : {<<>>}, plain : {<<>>}, done : {FALSE}]

\* this.normalizeText(this.stripAllSyntax("[b]" + text + "[/b]")) and
\* this.normalizeText(text)
CompareWrapped ==
  /\ ~probe.done
  /\ probe' = [probe EXCEPT !.wrapped = normalizeText(stripAllSyntax(Wrapped(probe.text))),
                            !.plain = normalizeText(probe.text),
                            !.done = TRUE]
  /\ UNCHANGED pageVars

NextWrap == CompareWrapped

SpecWrap == InitWrap /\ [][NextWrap]_vars

\* ------------------------------------------------------------------------
\* scrollTextAreaToCorrectPosition on its own, and the line number that
\* _syncEditorToPreview computes from the selection it leaves
\* ------------------------------------------------------------------------

\* The longest textarea value of these calls.
MaxValueLen == 4

ValueChars == {"a", "\n"}

Values == UNION {[1..n -> ValueChars] : n \in 0..MaxValueLen}

\* The caret is anywhere in the value before the call; the line asked for
\* is a line of the value or one of the two after its last.
InitSelect ==
  /\ world = 1
  /\ isSafari = Worlds[world].safari
  /\ NewPage
  /\ \E value \in Values, safari \in BOOLEAN :
       \E caret \in 0..Len(value), line \in 0..(Len(SplitLines(value)) + 1) :
         probe = [value |-> value, safari |-> safari, line |-> line,
                  sel |-> <<caret, caret>>, lineNumber |-> NoLine, done |-> FALSE]

\* this.scrollTextAreaToCorrectPosition(line), then the first statements of
\* _syncEditorToPreview on the selection it left.
SelectLine ==
  LET sel == scrollTextAreaToCorrectPosition(probe.value, probe.sel, probe.line, probe.safari)
  IN  /\ ~probe.done
      /\ probe' = [probe EXCEPT !.sel = sel,
                                !.lineNumber = LineNumberAt(probe.value, sel[1]),
                                !.done = TRUE]
      /\ UNCHANGED pageVars

NextSelect == SelectLine

SpecSelect == InitSelect /\ [][NextSelect]_vars

\* ------------------------------------------------------------------------
\* getMatchScore on its own, on two normalized strings in both orders
\* ------------------------------------------------------------------------

\* The most words of a string that is scored.
MaxScoreWords == 2

\* The words of those strings: one that the filter w.length > 2 drops, and
\* three it keeps, two of which contain one another.
ScoreWords == {<<"a","b">>, <<"a","b","c">>, <<"a","b","c","d">>, <<"x","y","z">>}

\* words.join(' ')
RECURSIVE JoinWords(_)
JoinWords(words) ==
  IF words = <<>> THEN <<>>
  ELSE IF Len(words) = 1 THEN words[1]
  ELSE words[1] \o <<" ">> \o JoinWords(Tail(words))

\* Normalized strings: words separated by single spaces, and the empty string.
ScoreStrings == {JoinWords(ws) : ws \in UNION {[1..n -> ScoreWords] : n \in 0..MaxScoreWords}}

InitScore ==
  /\ world = 1
  /\ isSafari = Worlds[world].safari
  /\ NewPage
  /\ probe \in [str1 : ScoreStrings, str2 : ScoreStrings,
                score : {<<0, 1>>}, back : {<<0, 1>>}, done : {FALSE}]

\* this.getMatchScore(str1, str2) and this.getMatchScore(str2, str1)
Score ==
  /\ ~probe.done
  /\ probe' = [probe EXCEPT !.score = getMatchScore(probe.str1, probe.str2),
                            !.back = getMatchScore(probe.str2, probe.str1),
                            !.done = TRUE]
  /\ UNCHANGED pageVars

NextScore == Score

SpecScore == InitScore /\ [][NextScore]_vars

\* ------------------------------------------------------------------------
\* The two searches call by call: findElementByLineNumber calling itself
\* with line - 1, getLineNumber calling itself with target.parentElement
\* ------------------------------------------------------------------------

\* The document element, whose nodeName is "HTML".
HtmlEl == -2

\* The preview whose nodes carry the attributes lns, each node the child
\* of the node before it, the first the child of the wrapper.
NestedNodes(lns) ==
  [n \in 1..Len(lns) |->
     Node("div", IF n = 1 THEN Wrapper ELSE n - 1, lns[n], <<>>, {}, 0, Wrapper)]

\* target.parentElement: above the preview's nodes come the wrapper, its
\* scroll parent and the document element, which has none.
ParentElementOf(nodes, el) ==
  IF el >= 1 THEN nodes[el].parent
  ELSE IF el = Wrapper THEN ScrollParentEl
  ELSE IF el = ScrollParentEl THEN HtmlEl
  ELSE NoEl

\* One call of findElementByLineNumber that returns null only below line 0.
lookupCallBelowZero(p) ==
  LET previewElements == {n \in 1..Len(p.lns) : p.lns[n] = p.cur}
  IN  IF previewElements # {}
        THEN [p EXCEPT !.result = CHOOSE n \in previewElements : \A m \in previewElements : m <= n,
                       !.done = TRUE, !.calls = @ + 1]
      ELSE IF p.cur < 0 THEN [p EXCEPT !.result = NoEl, !.done = TRUE, !.calls = @ + 1]
      ELSE [p EXCEPT !.cur = @ - 1, !.calls = @ + 1]

\* One call of findElementByLineNumber(p.cur) up to its return or its call
\* of itself, which stops at line 0.
lookupCall(p) ==
  LET previewElements == {n \in 1..Len(p.lns) : p.lns[n] = p.cur}
  IN  IF previewElements # {}
        THEN [p EXCEPT !.result = CHOOSE n \in previewElements : \A m \in previewElements : m <= n,
                       !.done = TRUE, !.calls = @ + 1]
      ELSE IF p.cur = 0 THEN [p EXCEPT !.result = NoEl, !.done = TRUE, !.calls = @ + 1]
      ELSE [p EXCEPT !.cur = @ - 1, !.calls = @ + 1]

\* One call of getLineNumber(p.cur) up to its return or its call of itself.
climbCall(p) ==
  IF p.cur = NoEl \/ p.cur = HtmlEl
    THEN [p EXCEPT !.result = NoLine, !.done = TRUE, !.calls = @ + 1]
  ELSE IF p.cur >= 1 /\ p.lns[p.cur] # NoLn
    THEN [p EXCEPT !.result = p.lns[p.cur], !.done = TRUE, !.calls = @ + 1]
  ELSE [p EXCEPT !.cur = ParentElementOf(NestedNodes(p.lns), p.cur), !.calls = @ + 1]

\* A search for a line up to one past the highest data-ln, or a walk from
\* a node of the preview or from the wrapper.
InitSearch ==
  /\ world = 1
  /\ isSafari = Worlds[world].safari
  /\ NewPage
  /\ \E lns \in AnnotationLists :
       \/ \E line \in 0..(MaxLn + 1) :
            probe = [search |-> "line", lns |-> lns, start |-> line, cur |-> line,
                     calls |-> 0, result |-> NoEl, done |-> FALSE]
       \/ \E target \in {Wrapper} \cup (1..Len(lns)) :
            probe = [search |-> "walk", lns |-> lns, start |-> target, cur |-> target,
                     calls |-> 0, result |-> NoLine, done |-> FALSE]

\* this.findElementByLineNumber(line): one call.
Lookup ==
  /\ probe.search = "line" /\ ~probe.done
  /\ probe' = lookupCall(probe)
  /\ UNCHANGED pageVars

\* this.getLineNumber(target): one call.
Climb ==
  /\ probe.search = "walk" /\ ~probe.done
  /\ probe' = climbCall(probe)
  /\ UNCHANGED pageVars

NextSearch == Lookup \/ Climb

\* A call that has begun runs to its return: the script is not interrupted.
SpecSearch == InitSearch /\ [][NextSearch]_vars /\ WF_vars(NextSearch)

\* ------------------------------------------------------------------------
\* Two handlers in one document: one per textarea, both on the wrapper that
\* document.querySelector(".d-editor-preview-wrapper") finds
\* ------------------------------------------------------------------------

Controllers == {1, 2}

\* The id of the style element the second handler creates.
OtherStyleEl == 2

\* The list of style elements as the second handler sees it: its own
\* element in the place of the first handler's and the other way round.
ExchangeStyles(styles) ==
  [i \in DOMAIN styles |->
     IF styles[i] = StyleEl THEN OtherStyleEl
     ELSE IF styles[i] = OtherStyleEl THEN StyleEl
     ELSE styles[i]]

StylesSeenBy(c, styles) == IF c = 1 THEN styles ELSE ExchangeStyles(styles)

\* The second handler before initialize, with its textarea and its rule;
\* order: the handlers whose mousedown listener is on the wrapper, in the
\* order the listeners were added.
NoPair ==
  [h |-> NewHandler, styleRule |-> {}, listeners |-> {}, sel |-> <<0, 0>>,
   cloneInBody |-> FALSE, order |-> <<>>]

\* The two handlers with what belongs to each (fields, rule text, listeners,
\* the selection and the clone of its textarea), and what they share: the
\* style elements of the document and the wrapper's mousedown listeners.
PairState ==
  [side |-> <<[h |-> h, styleRule |-> styleRule, listeners |-> listeners,
               sel |-> <<selectionStart, selectionEnd>>, cloneInBody |-> cloneInBody],
              [h |-> probe.h, styleRule |-> probe.styleRule, listeners |-> probe.listeners,
               sel |-> probe.sel, cloneInBody |-> probe.cloneInBody]>>,
   headStyles |-> headStyles,
   order |-> probe.order]

\* initializeClickToEdit(textArea) for the textarea of handler c.
pairInitialize(P, c, proseMirror) ==
  LET s == P.side[c]
      r == initialize(s.h, StylesSeenBy(c, P.headStyles), s.listeners, proseMirror)
  IN  [side |-> [P.side EXCEPT ![c] = [s EXCEPT !.h = r.h, !.listeners = r.listeners]],
       headStyles |-> StylesSeenBy(c, r.headStyles),
       order |-> IF "mousedown" \in r.listeners \ s.listeners
                   THEN Append(P.order, c) ELSE P.order]

\* handler.destroy() of handler c, none of its timers pending.
pairDestroy(P, c) ==
  LET s == P.side[c]
      NotC(d) == d # c
      r == destroy(s.h, <<>>, s.listeners, StylesSeenBy(c, P.headStyles), s.cloneInBody)
  IN  [side |-> [P.side EXCEPT ![c] = [s EXCEPT !.h = r.h, !.listeners = r.listeners,
                                                !.cloneInBody = r.cloneInBody]],
       headStyles |-> StylesSeenBy(c, r.headStyles),
       order |-> IF "mousedown" \in s.listeners \ r.listeners
                   THEN SelectSeq(P.order, NotC) ELSE P.order]

\* _handlePreviewClick of handler c with the match m of its rules.
pairClickTo(P, c, nodes, value, safari, m) ==
  LET s == P.side[c]
      u == updateActiveElementCSSStyleRule(s.h, nodes, P.headStyles, s.styleRule, m.element)
      moved == m.line # NoLine
  IN  [P EXCEPT
         !.side[c] = [s EXCEPT
                        !.h = [u.h EXCEPT !.clonedTextArea = @ \/ (moved /\ safari)],
                        !.styleRule = u.styleRule,
                        !.sel = IF moved
                                  THEN scrollTextAreaToCorrectPosition(value, s.sel, m.line, safari)
                                  ELSE s.sel,
                        !.cloneInBody = @ \/ (moved /\ safari)],
         !.headStyles = u.headStyles]

\* The mousedown event on a node of the preview: the listeners of the
\* wrapper run one after the other in the order they were added
\* (stopPropagation does not keep the listeners of the same element from
\* running); both textareas hold the document's text.
RECURSIVE dispatchClick(_, _, _, _)
dispatchClick(P, order, w, target) ==
  IF order = <<>> THEN P
  ELSE dispatchClick(pairClickTo(P, Head(order), Worlds[w].nodes, Worlds[w].value,
                                 Worlds[w].safari, ClickResolution[w][target]),
                     Tail(order), w, target)

InitPair ==
  /\ world \in DOMAIN Worlds
  /\ isSafari = Worlds[world].safari
  /\ NewPage
  /\ probe = NoPair

\* The step that leaves the two handlers and the document as P.
PairBecomes(P) ==
  /\ h' = P.side[1].h
  /\ styleRule' = P.side[1].styleRule
  /\ listeners' = P.side[1].listeners
  /\ selectionStart' = P.side[1].sel[1]
  /\ selectionEnd' = P.side[1].sel[2]
  /\ cloneInBody' = P.side[1].cloneInBody
  /\ headStyles' = P.headStyles
  /\ probe' = [h |-> P.side[2].h, styleRule |-> P.side[2].styleRule,
               listeners |-> P.side[2].listeners, sel |-> P.side[2].sel,
               cloneInBody |-> P.side[2].cloneInBody, order |-> P.order]
  /\ UNCHANGED <<world, isSafari, scrollTop, minHeight, timers, destroyCalled, lastReq, obs>>

PairInitialize(c, proseMirror) == PairBecomes(pairInitialize(PairState, c, proseMirror))

PairPreviewClick(target) ==
  /\ probe.order # <<>>
  /\ PairBecomes(dispatchClick(PairState, probe.order, world, target))

PairDestroy(c) == PairBecomes(pairDestroy(PairState, c))

NextPair ==
  \/ \E c \in Controllers, proseMirror \in BOOLEAN : PairInitialize(c, proseMirror)
  \/ \E target \in NodeIds(Nodes) : PairPreviewClick(target)
  \/ \E c \in Controllers : PairDestroy(c)

SpecPair == InitPair /\ [][NextPair]_vars

\* ------------------------------------------------------------------------
\* The initializer: activeHandlers, initializeClickToEdit, checkForEditors
\* and the two MutationObservers, for one textarea of a d-editor
\* ------------------------------------------------------------------------

\* The most callbacks waiting in the afterRender queue.
MaxQueue == 3

\* initializeClickToEdit without its look into activeHandlers.
initializeClickToEditAgain(p, hh, styles, ls, r) ==
  IF ~p.previewWrapper
    THEN [p |-> [p EXCEPT !.last = "noWrapper"], h |-> hh, headStyles |-> styles, listeners |-> ls]
    ELSE [p |-> [p EXCEPT !.activeHandlers = TRUE, !.observing = TRUE, !.mutated = FALSE,
                          !.created = @ + 1, !.last = "created"],
          h |-> r.h, headStyles |-> r.headStyles, listeners |-> r.listeners]

\* initializeClickToEdit(textArea) for the textarea; r is what
\* handler.initialize(textArea, previewWrapper) makes of a new handler.
initializeClickToEdit(p, hh, styles, ls, r) ==
  IF p.activeHandlers
    THEN [p |-> [p EXCEPT !.last = "has"], h |-> hh, headStyles |-> styles, listeners |-> ls]
  ELSE IF ~p.previewWrapper
    THEN [p |-> [p EXCEPT !.last = "noWrapper"], h |-> hh, headStyles |-> styles, listeners |-> ls]
  ELSE [p |-> [p EXCEPT !.activeHandlers = TRUE, !.observing = TRUE, !.mutated = FALSE,
                        !.created = @ + 1, !.last = "created"],
        h |-> r.h, headStyles |-> r.headStyles, listeners |-> r.listeners]

\* checkForEditors(): the afterRender queue after it has run.
checkForEditors(p, queue) ==
  IF p.inDocument /\ ~p.activeHandlers THEN Append(queue, "initialize") ELSE queue

\* The page: the textarea is in a .d-editor-textarea-wrapper of the document
\* or not, with or without a rich editor and a preview wrapper; no callback
\* has run.  activeHandlers: the textarea has an entry; observing: the
\* handler's MutationObserver is connected, mutated: it has a record to
\* deliver; created: the handlers made for the textarea since it was last
\* taken out of the document, the one it has when it is put back counted
\* once; last: what the last callback did.
InitEditors ==
  /\ world = 1
  /\ isSafari = Worlds[world].safari
  /\ NewPage
  /\ \E inDocument, proseMirror, previewWrapper \in BOOLEAN :
       probe = [inDocument |-> inDocument, proseMirror |-> proseMirror,
                previewWrapper |-> previewWrapper,
                queue |-> <<"checkForEditors">>, activeHandlers |-> FALSE,
                observing |-> FALSE, mutated |-> FALSE, created |-> 0, last |-> "none"]

EditorsUnchanged ==
  UNCHANGED <<world, isSafari, styleRule, selectionStart, selectionEnd, scrollTop,
              minHeight, destroyCalled, lastReq, obs>>

\* api.onPageChange: schedule("afterRender", null, checkForEditors)
PageChange ==
  /\ Len(probe.queue) < MaxQueue
  /\ probe' = [probe EXCEPT !.queue = Append(@, "checkForEditors"), !.last = "pageChange"]
  /\ UNCHANGED <<h, headStyles, listeners, cloneInBody, timers>>
  /\ EditorsUnchanged

\* The textarea is added to the document: the initializer's observer
\* schedules checkForEditors, the handler's observer has a record.
TextareaInserted ==
  /\ ~probe.inDocument
  /\ Len(probe.queue) < MaxQueue
  /\ probe' = [probe EXCEPT !.inDocument = TRUE,
                            !.queue = Append(@, "checkForEditors"),
                            !.mutated = probe.observing,
                            !.created = IF probe.activeHandlers THEN 1 ELSE 0,
                            !.last = "inserted"]
  /\ UNCHANGED <<h, headStyles, listeners, cloneInBody, timers>>
  /\ EditorsUnchanged

\* The textarea is removed from the document.
TextareaRemoved ==
  /\ probe.inDocument
  /\ probe' = [probe EXCEPT !.inDocument = FALSE, !.mutated = probe.observing,
                            !.created = 0, !.last = "removed"]
  /\ UNCHANGED <<h, headStyles, listeners, cloneInBody, timers>>
  /\ EditorsUnchanged

\* The rich editor is switched on or off; the preview wrapper is rendered.
SetRichEditor(proseMirror) ==
  /\ probe.proseMirror # proseMirror
  /\ probe' = [probe EXCEPT !.proseMirror = proseMirror, !.last = "editorMode"]
  /\ UNCHANGED <<h, headStyles, listeners, cloneInBody, timers>>
  /\ EditorsUnchanged

PreviewRendered ==
  /\ ~probe.previewWrapper
  /\ probe' = [probe EXCEPT !.previewWrapper = TRUE, !.last = "preview"]
  /\ UNCHANGED <<h, headStyles, listeners, cloneInBody, timers>>
  /\ EditorsUnchanged

\* The callback of the handler's observer: the textarea is gone from
\* document.body, so handler.destroy(), activeHandlers.delete(textArea),
\* observer.disconnect(); or it is there and nothing is done.
Destroyed(r) ==
  /\ h' = r.h
  /\ timers' = r.timers
  /\ listeners' = r.listeners
  /\ headStyles' = r.headStyles
  /\ cloneInBody' = r.cloneInBody
  /\ probe' = [probe EXCEPT !.activeHandlers = FALSE, !.observing = FALSE,
                            !.mutated = FALSE, !.last = "destroyed"]

HandlerObserver ==
  /\ probe.observing /\ probe.mutated
  /\ IF probe.inDocument
       THEN /\ probe' = [probe EXCEPT !.mutated = FALSE, !.last = "observed"]
            /\ UNCHANGED <<h, headStyles, listeners, cloneInBody, timers>>
       ELSE Destroyed(destroy(h, timers, listeners, headStyles, cloneInBody))
  /\ EditorsUnchanged

\* The first callback of the afterRender queue runs.
Initialized(r) ==
  /\ probe' = [r.p EXCEPT !.queue = Tail(probe.queue)]
  /\ h' = r.h
  /\ headStyles' = r.headStyles
  /\ listeners' = r.listeners

RunCheckForEditors ==
  /\ probe.queue # <<>> /\ Head(probe.queue) = "checkForEditors"
  /\ probe' = [probe EXCEPT !.queue = checkForEditors(probe, Tail(probe.queue)),
                            !.last = "checked"]
  /\ UNCHANGED <<h, headStyles, listeners, cloneInBody, timers>>
  /\ EditorsUnchanged

RunInitializeClickToEdit ==
  /\ probe.queue # <<>> /\ Head(probe.queue) = "initialize"
  /\ Initialized(initializeClickToEdit(probe, h, headStyles, listeners,
                   initialize(NewHandler, headStyles, listeners, probe.proseMirror)))
  /\ UNCHANGED <<cloneInBody, timers>>
  /\ EditorsUnchanged

NextEditors ==
  \/ PageChange
  \/ TextareaInserted
  \/ TextareaRemoved
  \/ \E proseMirror \in BOOLEAN : SetRichEditor(proseMirror)
  \/ PreviewRendered
  \/ HandlerObserver
  \/ RunCheckForEditors
  \/ RunInitializeClickToEdit

SpecEditors == InitEditors /\ [][NextEditors]_vars

\* ------------------------------------------------------------------------
\* Properties
\* ------------------------------------------------------------------------

\* The nodes the handler's highlight rule names.
ActiveTargets == Highlighted(Nodes, styleRule)

\* The timers of a kind that are pending.
PendingOf(kind) == {i \in DOMAIN timers : timers[i].kind = kind}

\* C1: once destroy() has run, no step of the handler (a timer scheduled
\* before the teardown coming due, an editor event still delivered) scrolls
\* the preview, changes the highlight rule or its style element, or
\* schedules a timer; the selection changes only when the user moves the
\* caret.
C1_NoEffectAfterDestroy ==
  [][destroyCalled =>
       /\ scrollTop' = scrollTop
       /\ minHeight' = minHeight
       /\ styleRule' = styleRule
       /\ headStyles' = headStyles
       /\ Len(timers') <= Len(timers)
       /\ \A i \in DOMAIN timers' : \E j \in DOMAIN timers : timers'[i] = timers[j]
       /\ (obs'.op # "moveCaret" =>
             selectionStart' = selectionStart /\ selectionEnd' = selectionEnd)]_vars

\* C1's case: a highlight timer scheduled before the teardown has come due
\* after it, for an element of the preview.
C1_TimerFiredAfterDestroy ==
  destroyCalled /\ obs.op = "fireHighlight" /\ obs.req # NoEl

\* C2: after destroy() no listener that initialize() registered is attached.
C2_AllListenersDetached == destroyCalled => listeners = {}

\* C3: after destroy() no scroll timer and no highlight timer is pending.
C3_NoTimerAfterDestroy ==
  destroyCalled => PendingOf("scroll") = {} /\ PendingOf("highlight") = {}

\* C4: once destroy() has run, _destroyed stays true and isInitialized false,
\* and no step attaches a listener or puts the handler's style element back
\* into the document.
C4_NeverRevived ==
  [][destroyCalled =>
       /\ h'._destroyed
       /\ ~h'.isInitialized
       /\ listeners' \subseteq listeners
       /\ StyleEl \notin Range(headStyles')]_vars

\* C4's case: initialize() has been called on the torn-down handler.
C4_InitializeAfterDestroy == destroyCalled /\ obs.op = "initialize"

\* C5: a highlight request for the element of the request before it does not
\* rewrite the rule; in a live handler the rule then names that element, so
\* the two requests have rewritten it once.
C5_SameElementNoRewrite ==
  obs.again => ~obs.wrote /\ (h.isInitialized => ActiveTargets = {obs.req})

\* C5's case: a highlight timer has come due in a live handler for the
\* element of the request before it.
C5_SameElementTwice == obs.again /\ obs.op = "fireHighlight" /\ h.isInitialized

\* C6: the highlight rule names at most one node, and a rewrite leaves it
\* naming the requested node only.
C6_AtMostOneActiveTarget ==
  /\ Cardinality(ActiveTargets) <= 1
  /\ obs.wrote => ActiveTargets = {obs.req}

\* C6's case: a rewrite of a rule that named another node.
C6_TargetReplaced == obs.replaced /\ ActiveTargets = {obs.req}

\* C7: at most one scroll timer and at most one highlight timer is pending.
C7_OneTimerOfEachKind ==
  Cardinality(PendingOf("scroll")) <= 1 /\ Cardinality(PendingOf("highlight")) <= 1

\* C8, as the spec states it: the editor-to-preview resolution runs only when
\* the debounced scroll timer comes due.
C8_OnlyThroughDebounce == obs.synced => obs.op = "fireScroll"

\* C8, corrected: input, mouseup and the listed keydown keys never resolve
\* in their own step and share one pending scroll timer, the one the handler
\* holds, so a burst of them is resolved once, when that timer comes due;
\* besides it only a click's timeout and a navigation keyup resolve.
C8_DebouncedInteractions ==
  /\ obs.op \in {"input", "mouseup", "keydown"} => ~obs.synced
  /\ Cardinality(PendingOf("scroll")) <= 1
  /\ \A i \in PendingOf("scroll") : timers[i].id = h._scrollDebounceTimer
  /\ obs.synced => obs.op \in {"fireScroll", "fireClick", "keyup"}

\* C8's case: the debounced scroll timer has come due and resolved the
\* caret's line to an element.
C8_DebouncedResolution ==
  obs.op = "fireScroll" /\ obs.synced /\ PendingOf("highlight") # {}

\* C9: a mousedown on a node that has a data-ln itself or through an
\* ancestor resolves to the line of the nearest such annotation.
C9_AnnotationDecides ==
  (obs.op = "previewClick" /\ getLineNumber(Nodes, obs.target) # NoLine)
    => obs.line = getLineNumber(Nodes, obs.target)

\* The node's normalized text and the three relations of a line to it.
ProbeTarget == normalizeText(Trim(probe.text))

ExactAt(i) == NormalizedLine(probe.lines, i) = ProbeTarget

ContainsAt(i) ==
  \/ Includes(NormalizedLine(probe.lines, i), ProbeTarget)
  \/ Includes(ProbeTarget, NormalizedLine(probe.lines, i))

FuzzyAt(i) == fuzzyMatch(NormalizedLine(probe.lines, i), ProbeTarget)

\* Every line takes part in the passes.
AnyLine(i) == TRUE

\* Only a line whose normalized text is not empty takes part, and none does
\* when the node's normalized text is empty.
ComparableLine(i) == NormalizedLine(probe.lines, i) # <<>> /\ ProbeTarget # <<>>

\* The line returned is that of the three passes in strict order over the
\* lines that take part: the lowest exact line if there is one, otherwise
\* the lowest containing or contained line, otherwise the lowest fuzzy line,
\* otherwise none.
ThreePasses(TakesPart(_)) ==
  LET r == probe.line
      lines == LineIndices(probe.lines)
      Exact(i) == TakesPart(i) /\ ExactAt(i)
      Contains(i) == TakesPart(i) /\ ContainsAt(i)
      Fuzzy(i) == TakesPart(i) /\ FuzzyAt(i)
  IN  /\ r # NoLine => r \in lines /\ (Exact(r) \/ Contains(r) \/ Fuzzy(r))
      /\ \A i \in lines : Exact(i) => r # NoLine /\ Exact(r) /\ r <= i
      /\ \A i \in lines : Contains(i) =>
           r # NoLine /\ (Exact(r) \/ (Contains(r) /\ r <= i))
      /\ \A i \in lines : Fuzzy(i) =>
           r # NoLine /\ (Exact(r) \/ Contains(r) \/ (Fuzzy(r) /\ r <= i))

\* C10, as the spec states it: findLineByContent returns the line of three
\* passes in strict order (exact, contains, fuzzy) over all lines of the
\* textarea, the lowest line of the first pass that matches.
C10_ThreePassesOverAllLines == probe.done => ThreePasses(AnyLine)

\* C10, corrected: the same three passes in strict order, over the lines
\* whose normalized text is not empty; no match when the node's normalized
\* text is empty.
C10_ThreePassesInOrder == probe.done => ThreePasses(ComparableLine)

\* C10's case: the exact line is returned although a line above it contains
\* the node's text.
C10_ExactBelowContains ==
  /\ probe.done /\ probe.line # NoLine
  /\ ExactAt(probe.line)
  /\ \E i \in 0..(probe.line - 1) : ComparableLine(i) /\ ContainsAt(i)

\* MatchScorer's score of line i against the node's text.
ScoreAt(i) == getMatchScore(NormalizedLine(probe.lines, i), ProbeTarget)

\* The lines the node's text partially overlaps: they share a word with it
\* (a score above 0) and neither equal it nor contain it or are contained.
OverlapLines ==
  {i \in LineIndices(probe.lines) :
     ComparableLine(i) /\ ~ExactAt(i) /\ ~ContainsAt(i) /\ FracGT(ScoreAt(i), <<0, 1>>)}

\* The lines that pass the fuzzy test of the third loop.
FuzzyLines == {i \in LineIndices(probe.lines) : ComparableLine(i) /\ FuzzyAt(i)}

\* No line equals the node's text, contains it or is contained in it: the
\* first two passes find nothing.
OnlyPartialOverlap ==
  \A i \in LineIndices(probe.lines) : ComparableLine(i) => ~ExactAt(i) /\ ~ContainsAt(i)

\* C11, as the spec states it: when the node's text partially overlaps two
\* lines, the line returned is one with the highest score, and among the
\* lines of that score the one with the lowest index.
C11_HigherScoreWins ==
  (probe.done /\ OnlyPartialOverlap /\ Cardinality(OverlapLines) >= 2)
    => /\ probe.line \in OverlapLines
       /\ \A j \in OverlapLines :
            /\ ~FracGT(ScoreAt(j), ScoreAt(probe.line))
            /\ ScoreAt(j) = ScoreAt(probe.line) => probe.line <= j

\* C11, corrected: when the node's text partially overlaps two lines that
\* both pass the fuzzy test, the line returned is the one with the lower
\* index, whatever the two scores are, so also when they tie.
C11_FirstOverlapWins ==
  (probe.done /\ OnlyPartialOverlap /\ Cardinality(FuzzyLines) >= 2)
    => /\ probe.line \in FuzzyLines
       /\ \A j \in FuzzyLines : probe.line <= j

\* C11's case: of two overlapping lines the lower one has been returned
\* although the other scores higher.
C11_LowerScoreReturned ==
  /\ probe.done /\ OnlyPartialOverlap /\ Cardinality(FuzzyLines) >= 2
  /\ probe.line \in FuzzyLines
  /\ \E j \in FuzzyLines : j > probe.line /\ FracGT(ScoreAt(j), ScoreAt(probe.line))

\* The nodes of the probe's preview annotated with a line of 0..probe.line.
AnnotatedUpTo == {n \in DOMAIN probe.lns : probe.lns[n] # NoLn /\ probe.lns[n] <= probe.line}

\* The nodes that carry the greatest annotation of 0..probe.line.
NearestAnnotated ==
  {n \in AnnotatedUpTo : \A m \in AnnotatedUpTo : probe.lns[m] <= probe.lns[n]}

\* C12: findElementByLineNumber(L) returns the last node, in document
\* order, of those annotated with the greatest annotated line that is at
\* most L, and returns none exactly when no node is annotated in 0..L.
C12_LastOfNearestAnnotation ==
  probe.done =>
    /\ probe.element = NoEl <=> AnnotatedUpTo = {}
    /\ probe.element # NoEl =>
         /\ probe.element \in NearestAnnotated
         /\ \A n \in NearestAnnotated : n <= probe.element

\* C12's case: the line itself is not annotated, the nearest annotated line
\* above it is carried by two nodes, and the later of them is returned
\* although a node after it carries a lower annotation.
C12_LastOfPrecedingLine ==
  /\ probe.done /\ probe.element # NoEl
  /\ probe.lns[probe.element] < probe.line
  /\ \E n \in NearestAnnotated : n < probe.element
  /\ \E n \in AnnotatedUpTo : n > probe.element

\* The preview and the text of the caret's line in a call of SpecMove.
MoveNodes == Previews[probe.tree]

MoveText == probe.lines[probe.line + 1]

\* C13: when a node is annotated with the caret's line, the move resolves
\* to a node annotated with that line, whatever the line's text is.
C13_AnnotationShortCircuits ==
  (probe.calls > 0 /\ \E n \in NodeIds(MoveNodes) : MoveNodes[n].ln = probe.line)
    => /\ probe.element # NoEl
       /\ MoveNodes[probe.element].ln = probe.line

\* The candidates of content matching for the caret's line: the nodes of
\* the kinds classified for the line's text whose own data-ln is absent or
\* is the caret's line.
MoveCandidates ==
  {n \in NodeIds(MoveNodes) :
     /\ Matches(MoveNodes[n], getExpectedElementTypes(MoveText))
     /\ MoveNodes[n].ln \in {NoLn, probe.line}}

\* MatchScorer's score of a node against the stripped, normalized line.
MoveScore(n) ==
  getMatchScore(normalizeText(stripAllSyntax(MoveText)), normalizeText(MoveNodes[n].text))

\* What content matching returned; for an empty line it is not asked.
ContentResult == IF probe.content = NotRun THEN NoEl ELSE probe.content

C15_SpecialRulesFirst ==
  (/\ probe.calls > 0 /\ probe.annotation = NoEl
   /\ findElementBySpecialSyntax(MoveNodes, MoveText) # NoEl)
    => /\ probe.element = findElementBySpecialSyntax(MoveNodes, MoveText)
       /\ probe.content = NotRun

\* C18: two consecutive resolutions of the same line, on the same textarea
\* and preview, end with the same element.
C18_SameInputSameElement ==
  (probe.calls >= 2 /\ probe.before.line = probe.line)
    => probe.before.element = probe.element

\* The pending highlight timers, in their order.
HighlightTimers(tm) ==
  LET IsHighlight(t) == t.kind = "highlight"
  IN  SelectSeq(tm, IsHighlight)

\* C16: a mousedown that resolves to no line leaves the selection and the
\* highlight as they are, and a call of _syncEditorToPreview that resolves
\* the caret's line to no element leaves the preview's scroll position, the
\* highlight and the pending highlight timers as they are.
C16_NoMatchChangesNothing ==
  [][/\ (obs'.op = "previewClick" /\ obs'.line = NoLine) =>
          /\ selectionStart' = selectionStart /\ selectionEnd' = selectionEnd
          /\ styleRule' = styleRule /\ headStyles' = headStyles
          /\ h'._lastHighlightedElement = h._lastHighlightedElement
     /\ (obs'.synced /\ PreviewResolution[world][selectionStart] = NoEl) =>
          /\ scrollTop' = scrollTop
          /\ styleRule' = styleRule /\ headStyles' = headStyles
          /\ h'._lastHighlightedElement = h._lastHighlightedElement
          /\ HighlightTimers(timers') = HighlightTimers(timers)
          /\ h'._highlightDebounceTimer = h._highlightDebounceTimer]_vars

\* C16's case: with an element highlighted and a highlight timer pending,
\* the caret's line has been resolved to no element.
C16_MoveWithoutMatch ==
  /\ obs.synced /\ PreviewResolution[world][selectionStart] = NoEl
  /\ ActiveTargets # {} /\ PendingOf("highlight") # {}

\* C16's other case: with an element highlighted, a mousedown has resolved
\* to no line.
C16_ClickWithoutMatch ==
  obs.op = "previewClick" /\ obs.line = NoLine /\ ActiveTargets # {}

\* The handler lacks its textarea, its preview wrapper or its scroll parent.
CollaboratorMissing == ~h.textArea \/ ~h.previewWrapper \/ h.scrollParent = NoEl

\* The steps in which the handler processes an event of the editor or of
\* the preview, or a callback it scheduled for one.
EventOps ==
  {"previewClick", "mouseup", "input", "keydown", "keyup", "click", "fireScroll", "fireClick"}

Canonical(s) ==
  /\ \A i \in DOMAIN s : s[i] \in Range(LowerSeq) \cup DigitChars \cup {" "}
  /\ s # <<>> => s[1] # " " /\ s[Len(s)] # " "
  /\ \A i \in 1..(Len(s) - 1) : ~(IsSpaceChar(s[i]) /\ IsSpaceChar(s[i + 1]))

\* C20: normalizeText applied to its own result returns that result, and
\* the result is in lower case, trimmed, and made of letters, digits and
\* single spaces only.
C20_IdempotentAndCanonical ==
  /\ probe.calls = 2 => probe.twice = probe.once
  /\ probe.calls >= 1 => Canonical(probe.once)

\* The fields, the rule text and the style element of handler c of two.
HandlerOf(c) == IF c = 1 THEN h ELSE probe.h

RuleOf(c) == IF c = 1 THEN styleRule ELSE probe.styleRule

StyleInDocument(c) == (IF c = 1 THEN StyleEl ELSE OtherStyleEl) \in Range(headStyles)

Alive(c) == HandlerOf(c).isInitialized /\ ~HandlerOf(c)._destroyed

\* C19: with two handlers in the document, no step takes the style element
\* of a handler that stays alive out of the document, a highlight update
\* that a handler accepts is written to a style element that is in the
\* document, and the teardown of one handler leaves the other's fields and
\* rule as they are.
C19_ControllersIndependent ==
  [][\A c \in Controllers :
       /\ (Alive(c) /\ Alive(c)' /\ StyleInDocument(c)) => StyleInDocument(c)'
       /\ (RuleOf(c)' # RuleOf(c)) => StyleInDocument(c)'
       /\ (\E d \in Controllers \ {c} : Alive(d) /\ ~Alive(d)') =>
            (HandlerOf(c)' = HandlerOf(c) /\ RuleOf(c)' = RuleOf(c))]_vars

PlainWrapText == "[" \notin Range(probe.text) /\ "|" \notin Range(probe.text)

ProbeLines == SplitLines(probe.value)

ValidLine == probe.line < Len(ProbeLines)

\* The offset of the first character of line n: the lengths of the lines
\* before it, each with its line break.
RECURSIVE OffsetOfLine(_, _)
OffsetOfLine(lines, n) ==
  IF n = 0 THEN 0 ELSE OffsetOfLine(lines, n - 1) + Len(lines[n]) + 1

\* C22: after scrollTextAreaToCorrectPosition(n) for a line n of the
\* textarea, the line number computed from selectionStart is n.
C22_RoundTrip == (probe.done /\ ValidLine) => probe.lineNumber = probe.line

\* C22's case: the round trip for an empty line that is not the first.
C22_EmptyLineRoundTrip ==
  /\ probe.done /\ ValidLine /\ probe.line >= 1
  /\ ProbeLines[probe.line + 1] = <<>>

\* C23: after scrollTextAreaToCorrectPosition(n) the selection starts at
\* the first character of line n and ends at the line break that ends it
\* (at the end of the value for the last line), empty lines included; for a
\* line past the last the selection ends at the end of the value.
C23_SelectionSpansLine ==
  probe.done =>
    IF ValidLine
      THEN probe.sel = <<OffsetOfLine(ProbeLines, probe.line),
                         OffsetOfLine(ProbeLines, probe.line) + Len(ProbeLines[probe.line + 1])>>
      ELSE probe.sel[2] = Len(probe.value)

\* The tiers of getMatchScore for the probe's two strings.
ExactTier == probe.str1 = probe.str2

ContainsTier ==
  /\ ~ExactTier
  /\ Includes(probe.str1, probe.str2) \/ Includes(probe.str2, probe.str1)

FuzzyTier ==
  /\ probe.str1 # <<>> /\ probe.str2 # <<>>
  /\ ~ExactTier /\ ~ContainsTier

\* C24: the score lies between 0 and 1; a non-empty string scores 1
\* against itself; the empty string scores 0 against every string; and in
\* the exact and the containment tier the score is the same in both orders.
C24_ScoreBoundsAndSymmetry ==
  probe.done =>
    /\ probe.score[2] > 0 /\ 0 <= probe.score[1] /\ probe.score[1] <= probe.score[2]
    /\ (ExactTier /\ probe.str1 # <<>>) => probe.score[1] = probe.score[2]
    /\ probe.str1 = <<>> => probe.score[1] = 0
    /\ (ExactTier \/ ContainsTier) => probe.score[1] * probe.back[2] = probe.back[1] * probe.score[2]

\* C24's case: a string scored against a longer string that contains it.
C24_ContainedString ==
  /\ probe.done /\ ContainsTier
  /\ probe.str1 # <<>> /\ Len(probe.str1) < Len(probe.str2)

\* The shorter and the longer of the probe's strings.
ShorterString == IF Len(probe.str1) < Len(probe.str2) THEN probe.str1 ELSE probe.str2

LongerString == IF Len(probe.str1) < Len(probe.str2) THEN probe.str2 ELSE probe.str1

\* C26: in the fuzzy tier the score is 0 when either string has no word of
\* more than 2 characters; otherwise, for strings of different lengths, it
\* is the count of such words of the shorter string that overlap a word of
\* the longer one, over the larger of the two word counts.
C26_ShorterSideIsBasis ==
  (probe.done /\ FuzzyTier) =>
    IF LongWords(probe.str1) = <<>> \/ LongWords(probe.str2) = <<>>
      THEN probe.score[1] = 0
      ELSE Len(probe.str1) # Len(probe.str2) =>
             probe.score = <<MatchCount(LongWords(ShorterString), LongWords(LongerString)),
                             Max2(Len(LongWords(probe.str1)), Len(LongWords(probe.str2)))>>

\* C25: initialize() called with a rich editor in the page leaves a handler
\* that was not initialized as it is: no listener, no style element, not
\* initialized; and as long as the handler has attached no listener, no
\* step changes the preview's scroll position or the highlight, and the
\* selection changes only when the user moves the caret.
C25_SkipsRichEditor ==
  [][/\ (Initialize(TRUE) /\ ~h.isInitialized) =>
          /\ h' = h /\ ~h'.isInitialized
          /\ listeners' = listeners /\ headStyles' = headStyles
     /\ (listeners = {} /\ listeners' = {}) =>
          /\ scrollTop' = scrollTop /\ minHeight' = minHeight
          /\ styleRule' = styleRule /\ headStyles' = headStyles
          /\ timers' = timers
          /\ obs'.op # "moveCaret" =>
               (selectionStart' = selectionStart /\ selectionEnd' = selectionEnd)]_vars

\* C25's case: initialize() has returned for the rich editor, and the
\* handler is as the constructor left it.
C25_SkippedForRichEditor ==
  /\ obs.op = "initialize" /\ ~destroyCalled
  /\ ~h.isInitialized /\ listeners = {} /\ headStyles = <<>>

\* The calls a search may take: one per line from the line asked for down
\* to 0, or one per element from the target up to the document element.
SearchBound ==
  IF probe.search = "line"
    THEN probe.calls <= probe.start + 1
    ELSE probe.calls <= Len(probe.lns) + 3

\* Where a search that has returned ended, and that it returned what the
\* method returns.
SearchEnd ==
  IF probe.search = "line"
    THEN /\ probe.result = findElementByLineNumber(NestedNodes(probe.lns), probe.start)
         /\ probe.result # NoEl \/ probe.cur = 0
    ELSE /\ probe.result = getLineNumber(NestedNodes(probe.lns), probe.start)
         /\ \/ probe.cur >= 1 /\ probe.lns[probe.cur] = probe.result /\ probe.result # NoLn
            \/ probe.cur = HtmlEl /\ probe.result = NoLine

\* C27: the search for a line L takes at most L + 1 calls and returns, at
\* line 0 at the latest; the walk up from a node returns at a node that
\* carries data-ln or at the document element.
C27_SearchesTerminate ==
  /\ [](SearchBound /\ (probe.done => SearchEnd))
  /\ <>probe.done

\* C27's case: a search that went down to line 0, and took L + 1 calls.
C27_SearchReachedLineZero ==
  /\ probe.search = "line" /\ probe.done
  /\ probe.start >= 1 /\ probe.calls = probe.start + 1

\* C28: a highlight timer that comes due right after a preview click has
\* asked for the highlight of an element (so a timer that an editor event
\* before the click had scheduled) does not rewrite the highlight rule:
\* the highlight stays on the element of the click, the most recent
\* interaction.
C28_LatestInteractionWins ==
  [][(obs.op = "previewClick" /\ obs.req # NoEl /\ obs'.op = "fireHighlight") =>
       (~obs'.wrote /\ styleRule' = styleRule)]_vars

\* C29: at most one handler is created and recorded for the textarea while
\* it stays in the document, whatever callbacks are pending, and a
\* callback that finds the textarea recorded creates none.
C29_OneHandlerPerTextarea ==
  /\ probe.created <= 1
  /\ probe.last = "has" => probe.activeHandlers

\* C29's case: a second initializeClickToEdit callback for the textarea
\* has run while the first one's handler was recorded.
C29_SecondCallbackReturned ==
  /\ probe.last = "has" /\ probe.inDocument /\ probe.created = 1
  /\ h.isInitialized

\* C30: the textarea has an entry in activeHandlers only with a handler
\* that is initialized and not destroyed, its listeners attached.
C30_RecordedHandlersServe ==
  probe.activeHandlers =>
    (h.isInitialized /\ ~h._destroyed /\ EditorEvents \subseteq listeners)

====
